---- MODULE Spec2Model ----
(***************************************************************************)
(* Mindikot: the immutable-snapshot rules engine (GameEngine, TrickHandler, *)
(* TrumpHandler) and the host's action handler (GameViewModel) as a state   *)
(* machine over one GameState value.                                        *)
(*                                                                          *)
(* Kotlin's nullable values are modelled as tuples: Null is <<>> and a      *)
(* present value x is <<x>>.  Lists are sequences, except GameState.players *)
(* which is a function over 0..n-1 so that the code's 0-based indices and   *)
(* its (playerIndex + 1) % size arithmetic are kept as written.  A trick    *)
(* play (Pair<Player, Card>) keeps the player's id as `first`, the only     *)
(* part of the Player snapshot the engine reads back; Team.players, which   *)
(* the engine never reads, is left out of a team.                           *)
(***************************************************************************)
EXTENDS Integers, Sequences, FiniteSets, TLC

VARIABLES
    state,   \* the GameState being threaded (the host's _state.value)
    last,    \* what the last call did: [op, outcome, error, input, player, pre]
             \* and tricksCompleted, the tricks completed so far in the round,
             \* and cardsPlayed, the cards accepted so far in the round
    calc,    \* a call of a pure function of the engine: its arguments and result
    sync,    \* the host's tasks: processGameInput bodies between read and write, a
             \* pending round result, an updatePlayerName call between read and
             \* write, and `step`: what the last step did and sent
    client   \* a client device: its id, its mirrored GameState and the messages in
             \* flight between it and the host

vars == <<state, last, calc, sync, client>>

(***************************************************************************)
(* Bounds of the model.                                                     *)
(***************************************************************************)
\* cards in the deck a round is played with
DeckSize == 9
\* cards dealt to each player at most
MaxHand == 2
\* messages in flight between a client and the host, each way, at most
MaxInFlight == 2
\* largest player count played
MaxPlayers == 4
\* how many cut positions of the shuffled deck are tried
MaxCut == 2

(***************************************************************************)
(* Domain model: Suit, Rank, Card, GameMode, InputType, Decision.           *)
(***************************************************************************)
Null == <<>>
Some(x) == <<x>>

SuitValues == <<"CLUBS", "DIAMONDS", "HEARTS", "SPADES">>

RankValues ==
    <<"TWO", "THREE", "FOUR", "FIVE", "SIX", "SEVEN", "EIGHT", "NINE", "TEN",
      "JACK", "QUEEN", "KING", "ACE">>

\* Rank.value: TWO(2) .. ACE(14)
RankValue(r) == 1 + CHOOSE i \in 1..Len(RankValues) : RankValues[i] = r

Card(s, r) == [suit |-> s, rank |-> r]

GameModes == {"CHOOSE_WHEN_EMPTY", "FIRST_CARD_HIDDEN"}

InputTypes == {"PLAY_CARD", "CHOOSE_TRUMP_SUIT", "REVEAL_OR_PASS"}

Decisions == {"REVEAL", "PASS"}

(***************************************************************************)
(* Sequence helpers standing for the Kotlin collection calls used.          *)
(***************************************************************************)
Range(seq) == {seq[i] : i \in 1..Len(seq)}

Contains(seq, x) == \E i \in 1..Len(seq) : seq[i] = x

\* List<T>.minus(element): removes the first occurrence of x, if any
Minus(seq, x) ==
    IF ~Contains(seq, x) THEN seq
    ELSE LET k == CHOOSE i \in 1..Len(seq) :
                     seq[i] = x /\ \A j \in 1..(i - 1) : seq[j] # x
         IN [i \in 1..(Len(seq) - 1) |-> IF i < k THEN seq[i] ELSE seq[i + 1]]

\* maxByOrNull { it.second.rank.value } on a non-empty list: the first maximal element
MaxByRank(plays) ==
    plays[CHOOSE i \in 1..Len(plays) :
              /\ \A j \in 1..Len(plays) :
                     RankValue(plays[j].second.rank) <= RankValue(plays[i].second.rank)
              /\ \A j \in 1..(i - 1) :
                     RankValue(plays[j].second.rank) < RankValue(plays[i].second.rank)]

Min(a, b) == IF a < b THEN a ELSE b

NumPlayers(s) == Cardinality(DOMAIN s.players)

(***************************************************************************)
(* Player inputs: the `Any` payload is either a Card or a Decision.         *)
(***************************************************************************)
NoCard == [suit |-> "-", rank |-> "-"]

CardInput(c) == [kind |-> "Card", card |-> c, decision |-> "-"]

DecisionInput(d) == [kind |-> "Decision", card |-> NoCard, decision |-> d]

(***************************************************************************)
(* Deck.                                                                    *)
(***************************************************************************)
\* the deck a round of the model is played with: the first DeckSize cards of the
\* ranks from TEN upwards, each rank in every suit
RoundDeck ==
    [i \in 1..Min(DeckSize, 5 * Len(SuitValues)) |->
        Card(SuitValues[((i - 1) % Len(SuitValues)) + 1],
             RankValues[9 + ((i - 1) \div Len(SuitValues))])]

Gcd(a, b) == CHOOSE d \in 1..a : a % d = 0 /\ b % d = 0 /\
                 \A e \in (d + 1)..a : ~(a % e = 0 /\ b % e = 0)

\* shuffled(): the permutations tried are the deck taken with a stride and a cut
Shuffled(deck, stride, cut) ==
    [i \in 1..Len(deck) |-> deck[(((i - 1) * stride + cut) % Len(deck)) + 1]]

Strides(deck) == {a \in 1..Len(deck) : Gcd(a, Len(deck)) = 1}

Cuts(deck) == 0..(Min(MaxCut, Len(deck)) - 1)

\* dealCards: handSize cards to each player in turn, from the front of the deck
DealtHand(deck, handSize, i) == SubSeq(deck, i * handSize + 1, (i + 1) * handSize)

(***************************************************************************)
(* GameEngine.determineValidMoves                                           *)
(***************************************************************************)
\* variant: the follow-suit filter is left out
determineValidMoves_NoFollowSuit(playerHand, currentTrickPlays, trumpSuit, trumpRevealed) ==
    playerHand

determineValidMoves(playerHand, currentTrickPlays, trumpSuit, trumpRevealed) ==
    IF currentTrickPlays = <<>> THEN playerHand
    ELSE LET leadSuit == currentTrickPlays[1].second.suit
             cardsInLeadSuit == SelectSeq(playerHand, LAMBDA c : c.suit = leadSuit)
         IN IF cardsInLeadSuit # <<>> THEN cardsInLeadSuit ELSE playerHand

(***************************************************************************)
(* GameEngine.requestInput                                                  *)
(***************************************************************************)
\* variant: no input type is chosen for a player who cannot follow once trump is revealed
requestInput_NoTypeWhenRevealed(s, playerIndex) ==
    LET currentPlayer == s.players[playerIndex]
        canFollowSuit ==
            \E i \in 1..Len(currentPlayer.hand) :
                currentPlayer.hand[i].suit = s.currentTrickPlays[1].second.suit
        requiredInputType ==
            IF s.currentTrickPlays = <<>> THEN Some("PLAY_CARD")
            ELSE IF canFollowSuit THEN Some("PLAY_CARD")
            ELSE IF s.trumpRevealed THEN Null
            ELSE IF s.gameMode = "CHOOSE_WHEN_EMPTY" THEN Some("CHOOSE_TRUMP_SUIT")
            ELSE Some("REVEAL_OR_PASS")
    IN [s EXCEPT !.awaitingInputFromPlayerIndex = Some(playerIndex),
                 !.requiredInputType = requiredInputType]

\* variant: the requested player is also made the leader
requestInput_SetsLeader(s, playerIndex) ==
    LET currentPlayer == s.players[playerIndex]
        requiredInputType ==
            IF s.currentTrickPlays = <<>> THEN "PLAY_CARD"
            ELSE LET leadSuit == s.currentTrickPlays[1].second.suit
                     canFollowSuit ==
                         \E i \in 1..Len(currentPlayer.hand) :
                             currentPlayer.hand[i].suit = leadSuit
                 IN IF canFollowSuit THEN "PLAY_CARD"
                    ELSE IF s.trumpRevealed THEN "PLAY_CARD"
                    ELSE IF s.gameMode = "CHOOSE_WHEN_EMPTY" THEN "CHOOSE_TRUMP_SUIT"
                    ELSE "REVEAL_OR_PASS"
    IN [s EXCEPT !.awaitingInputFromPlayerIndex = Some(playerIndex),
                 !.requiredInputType = Some(requiredInputType),
                 !.currentLeaderIndex = playerIndex]

\* variant: the game mode is not looked at, REVEAL_OR_PASS is asked in both modes
requestInput_ModeUnseen(s, playerIndex) ==
    LET currentPlayer == s.players[playerIndex]
        requiredInputType ==
            IF s.currentTrickPlays = <<>> THEN "PLAY_CARD"
            ELSE LET leadSuit == s.currentTrickPlays[1].second.suit
                     canFollowSuit ==
                         \E i \in 1..Len(currentPlayer.hand) :
                             currentPlayer.hand[i].suit = leadSuit
                 IN IF canFollowSuit THEN "PLAY_CARD"
                    ELSE IF s.trumpRevealed THEN "PLAY_CARD"
                    ELSE "REVEAL_OR_PASS"
    IN [s EXCEPT !.awaitingInputFromPlayerIndex = Some(playerIndex),
                 !.requiredInputType = Some(requiredInputType)]

requestInput(s, playerIndex) ==
    LET currentPlayer == s.players[playerIndex]
        requiredInputType ==
            IF s.currentTrickPlays = <<>> THEN "PLAY_CARD"
            ELSE LET leadSuit == s.currentTrickPlays[1].second.suit
                     canFollowSuit ==
                         \E i \in 1..Len(currentPlayer.hand) :
                             currentPlayer.hand[i].suit = leadSuit
                 IN IF canFollowSuit THEN "PLAY_CARD"
                    ELSE IF s.trumpRevealed THEN "PLAY_CARD"
                    ELSE IF s.gameMode = "CHOOSE_WHEN_EMPTY" THEN "CHOOSE_TRUMP_SUIT"
                    ELSE "REVEAL_OR_PASS"
    IN [s EXCEPT !.awaitingInputFromPlayerIndex = Some(playerIndex),
                 !.requiredInputType = Some(requiredInputType)]

(***************************************************************************)
(* TrickHandler.determineTrickWinner: the id of the winning play's player   *)
(***************************************************************************)
\* variant: the highest-ranked card wins whatever its suit
determineTrickWinner_HighestRank(playedCards, trumpSuit) ==
    MaxByRank(playedCards).first

\* variant: the first trump play wins, not the highest one
determineTrickWinner_FirstTrump(playedCards, trumpSuit) ==
    LET leadSuit == playedCards[1].second.suit
        trumpPlays ==
            SelectSeq(playedCards,
                      LAMBDA p : Some(p.second.suit) = trumpSuit /\ trumpSuit # Null)
        leadSuitPlays == SelectSeq(playedCards, LAMBDA p : p.second.suit = leadSuit)
        winningPlay ==
            IF trumpPlays # <<>> THEN trumpPlays[1] ELSE MaxByRank(leadSuitPlays)
    IN winningPlay.first

\* variant: trump plays are not looked at, the highest card of the led suit wins
determineTrickWinner_IgnoresTrump(playedCards, trumpSuit) ==
    LET leadSuit == playedCards[1].second.suit
        leadSuitPlays == SelectSeq(playedCards, LAMBDA p : p.second.suit = leadSuit)
    IN MaxByRank(leadSuitPlays).first

determineTrickWinner(playedCards, trumpSuit) ==
    LET leadSuit == playedCards[1].second.suit
        trumpPlays ==
            SelectSeq(playedCards,
                      LAMBDA p : Some(p.second.suit) = trumpSuit /\ trumpSuit # Null)
        leadSuitPlays == SelectSeq(playedCards, LAMBDA p : p.second.suit = leadSuit)
        winningPlay ==
            IF trumpPlays # <<>> THEN MaxByRank(trumpPlays) ELSE MaxByRank(leadSuitPlays)
    IN winningPlay.first

(***************************************************************************)
(* Team.countTens / hasKot and RoundEvaluator.evaluateRound; a RoundResult  *)
(* keeps the winning team's id (null for a draw) and isKot.                 *)
(***************************************************************************)
countTens(team) ==
    Cardinality({i \in 1..Len(team.collectedCards) : team.collectedCards[i].rank = "TEN"})

hasKot(team) == countTens(team) = 4

RoundResult(winningTeam, isKot) == [winningTeam |-> winningTeam, isKot |-> isKot]

MaxOf(S, default) == IF S = {} THEN default ELSE CHOOSE m \in S : \A x \in S : x <= m

\* variant: the Kot check is skipped, the majority of tens decides
evaluateRound_NoKotCheck(s) ==
    LET teams == s.teams
        teamIds == {teams[i].id : i \in 1..Len(teams)}
        tensOf(id) == countTens(teams[CHOOSE i \in 1..Len(teams) : teams[i].id = id])
        maxTens == MaxOf({tensOf(id) : id \in teamIds}, 0)
        teamsWithMaxTensIds == {id \in teamIds : tensOf(id) = maxTens}
    IN IF Cardinality(teamsWithMaxTensIds) = 1
       THEN RoundResult(Some(CHOOSE id \in teamsWithMaxTensIds : TRUE), FALSE)
       ELSE RoundResult(Null, FALSE)

\* variant: a tie in tens is given to the tied team with the lowest id, tricks unseen
evaluateRound_TieToFirstTeam(s) ==
    LET teams == s.teams
        kotTeams == {i \in 1..Len(teams) : hasKot(teams[i])}
        teamIds == {teams[i].id : i \in 1..Len(teams)}
        tensOf(id) == countTens(teams[CHOOSE i \in 1..Len(teams) : teams[i].id = id])
        maxTens == MaxOf({tensOf(id) : id \in teamIds}, 0)
        teamsWithMaxTensIds == {id \in teamIds : tensOf(id) = maxTens}
    IN IF kotTeams # {}
       THEN RoundResult(Some(teams[CHOOSE i \in kotTeams : \A j \in kotTeams : i <= j].id),
                        TRUE)
       ELSE IF maxTens > 0
       THEN RoundResult(Some(CHOOSE id \in teamsWithMaxTensIds :
                                 \A other \in teamsWithMaxTensIds : id <= other), FALSE)
       ELSE RoundResult(Null, FALSE)

evaluateRound(s) ==
    LET teams == s.teams
        kotTeams == {i \in 1..Len(teams) : hasKot(teams[i])}
        teamIds == {teams[i].id : i \in 1..Len(teams)}
        tensOf(id) == countTens(teams[CHOOSE i \in 1..Len(teams) : teams[i].id = id])
        maxTens == MaxOf({tensOf(id) : id \in teamIds}, 0)
        teamsWithMaxTensIds == {id \in teamIds : tensOf(id) = maxTens}
        tiedTeams == teamsWithMaxTensIds \cap DOMAIN s.tricksWon
        maxTricks == MaxOf({s.tricksWon[id] : id \in tiedTeams}, -1)
        teamsWithMaxTricks == {id \in tiedTeams : s.tricksWon[id] = maxTricks}
    IN IF kotTeams # {}
       THEN RoundResult(Some(teams[CHOOSE i \in kotTeams : \A j \in kotTeams : i <= j].id),
                        TRUE)
       ELSE IF Cardinality(teamsWithMaxTensIds) = 1
       THEN RoundResult(Some(CHOOSE id \in teamsWithMaxTensIds : TRUE), FALSE)
       ELSE IF Cardinality(teamsWithMaxTensIds) > 1 /\ maxTens > 0
       THEN IF maxTricks <= 0 THEN RoundResult(Null, FALSE)
            ELSE IF Cardinality(teamsWithMaxTricks) = 1
            THEN RoundResult(Some(CHOOSE id \in teamsWithMaxTricks : TRUE), FALSE)
            ELSE RoundResult(Null, FALSE)
       ELSE RoundResult(Null, FALSE)

(***************************************************************************)
(* TrumpHandler                                                             *)
(***************************************************************************)
\* variant: the trumpRevealed guard is left out
setTrumpFromPlayedCard_Unguarded(s, cardPlayed) ==
    [s EXCEPT !.trumpSuit = Some(cardPlayed.suit), !.trumpRevealed = TRUE]

setTrumpFromPlayedCard(s, cardPlayed) ==
    IF ~s.trumpRevealed
    THEN [s EXCEPT !.trumpSuit = Some(cardPlayed.suit), !.trumpRevealed = TRUE]
    ELSE s

\* variant: the hiddenCard != null guard is left out (hiddenCard?.suit)
revealHiddenTrump_NoHiddenCheck(s) ==
    IF ~s.trumpRevealed /\ s.gameMode = "FIRST_CARD_HIDDEN"
    THEN [s EXCEPT !.trumpSuit = IF s.hiddenCard = Null THEN Null
                                 ELSE Some(s.hiddenCard[1].suit),
                   !.trumpRevealed = TRUE]
    ELSE s

\* variant: the reveal consumes the hidden card
revealHiddenTrump_ClearsHidden(s) ==
    IF ~s.trumpRevealed /\ s.hiddenCard # Null /\ s.gameMode = "FIRST_CARD_HIDDEN"
    THEN [s EXCEPT !.trumpSuit = Some(s.hiddenCard[1].suit), !.trumpRevealed = TRUE,
                   !.hiddenCard = Null]
    ELSE s

revealHiddenTrump(s) ==
    IF ~s.trumpRevealed /\ s.hiddenCard # Null /\ s.gameMode = "FIRST_CARD_HIDDEN"
    THEN [s EXCEPT !.trumpSuit = Some(s.hiddenCard[1].suit), !.trumpRevealed = TRUE]
    ELSE s

\* variant: passing discards the hidden card
handleTrumpPass_DropsHidden(s) == [s EXCEPT !.hiddenCard = Null]

handleTrumpPass(s) == s

(***************************************************************************)
(* GameEngine.applyPlayCard and applyFinishTrick                            *)
(***************************************************************************)
\* variant: the played card stays in the hand
applyPlayCard_KeepsCard(s, playerIndex, card) ==
    [s EXCEPT !.currentTrickPlays =
                  Append(s.currentTrickPlays,
                         [first |-> s.players[playerIndex].id, second |-> card]),
              !.awaitingInputFromPlayerIndex = Null,
              !.requiredInputType = Null]

\* variant: the play is put in front of the trick's plays
applyPlayCard_PlayInFront(s, playerIndex, card) ==
    LET player == s.players[playerIndex]
        updatedPlayer == [player EXCEPT !.hand = Minus(player.hand, card)]
    IN [s EXCEPT !.players = [s.players EXCEPT ![playerIndex] = updatedPlayer],
                 !.currentTrickPlays =
                     <<[first |-> updatedPlayer.id, second |-> card]>> \o s.currentTrickPlays,
                 !.awaitingInputFromPlayerIndex = Null,
                 !.requiredInputType = Null]

applyPlayCard(s, playerIndex, card) ==
    LET player == s.players[playerIndex]
        updatedHand == Minus(player.hand, card)
        updatedPlayer == [player EXCEPT !.hand = updatedHand]
        updatedPlayers == [s.players EXCEPT ![playerIndex] = updatedPlayer]
        updatedTrickPlays ==
            Append(s.currentTrickPlays, [first |-> updatedPlayer.id, second |-> card])
    IN [s EXCEPT !.players = updatedPlayers,
                 !.currentTrickPlays = updatedTrickPlays,
                 !.awaitingInputFromPlayerIndex = Null,
                 !.requiredInputType = Null]

\* variant: the card that led the trick does not reach the winner's pile
applyFinishTrick_LeadCardLost(s) ==
    LET trickPlays == s.currentTrickPlays
        winnerPlayerRefId == determineTrickWinner(trickPlays, s.trumpSuit)
        \* players.first { it.id == winnerPlayerRef.id } and its indexOf
        winnerIndex ==
            CHOOSE i \in DOMAIN s.players :
                /\ s.players[i].id = winnerPlayerRefId
                /\ \A j \in DOMAIN s.players :
                       j < i => s.players[j].id # winnerPlayerRefId
        winningTeamId == s.players[winnerIndex].teamId
        cardsToAdd == Tail([i \in 1..Len(trickPlays) |-> trickPlays[i].second])
        updatedTeams ==
            [t \in 1..Len(s.teams) |->
                IF s.teams[t].id = winningTeamId
                THEN [s.teams[t] EXCEPT
                          !.collectedCards = s.teams[t].collectedCards \o cardsToAdd]
                ELSE s.teams[t]]
        currentTrickCount ==
            IF winningTeamId \in DOMAIN s.tricksWon THEN s.tricksWon[winningTeamId] ELSE 0
        updatedTricksWon ==
            [id \in DOMAIN s.tricksWon \cup {winningTeamId} |->
                IF id = winningTeamId THEN currentTrickCount + 1 ELSE s.tricksWon[id]]
    IN [s EXCEPT !.teams = updatedTeams,
                 !.tricksWon = updatedTricksWon,
                 !.currentTrickPlays = <<>>,
                 !.currentLeaderIndex = winnerIndex,
                 !.awaitingInputFromPlayerIndex = Null,
                 !.requiredInputType = Null]

\* variant: the trick count is stored without the increment
applyFinishTrick_NoIncrement(s) ==
    LET trickPlays == s.currentTrickPlays
        winnerIndex == determineTrickWinner(trickPlays, s.trumpSuit)
        winningTeamId == s.players[winnerIndex].teamId
        cardsToAdd == [i \in 1..Len(trickPlays) |-> trickPlays[i].second]
    IN [s EXCEPT !.teams =
                     [t \in 1..Len(s.teams) |->
                         IF s.teams[t].id = winningTeamId
                         THEN [s.teams[t] EXCEPT
                                   !.collectedCards = s.teams[t].collectedCards \o cardsToAdd]
                         ELSE s.teams[t]],
                 !.currentTrickPlays = <<>>,
                 !.currentLeaderIndex = winnerIndex,
                 !.awaitingInputFromPlayerIndex = Null,
                 !.requiredInputType = Null]

\* variant: the new leader is not set to the trick winner
applyFinishTrick_KeepsLeader(s) ==
    LET trickPlays == s.currentTrickPlays
        winnerIndex == determineTrickWinner(trickPlays, s.trumpSuit)
        winningTeamId == s.players[winnerIndex].teamId
        cardsToAdd == [i \in 1..Len(trickPlays) |-> trickPlays[i].second]
    IN [s EXCEPT !.teams =
                     [t \in 1..Len(s.teams) |->
                         IF s.teams[t].id = winningTeamId
                         THEN [s.teams[t] EXCEPT
                                   !.collectedCards = s.teams[t].collectedCards \o cardsToAdd]
                         ELSE s.teams[t]],
                 !.tricksWon = [s.tricksWon EXCEPT ![winningTeamId] = @ + 1],
                 !.currentTrickPlays = <<>>,
                 !.awaitingInputFromPlayerIndex = Null,
                 !.requiredInputType = Null]

applyFinishTrick(s) ==
    LET trickPlays == s.currentTrickPlays
        winnerPlayerRefId == determineTrickWinner(trickPlays, s.trumpSuit)
        \* players.first { it.id == winnerPlayerRef.id } and its indexOf
        winnerIndex ==
            CHOOSE i \in DOMAIN s.players :
                /\ s.players[i].id = winnerPlayerRefId
                /\ \A j \in DOMAIN s.players :
                       j < i => s.players[j].id # winnerPlayerRefId
        winningTeamId == s.players[winnerIndex].teamId
        cardsToAdd == [i \in 1..Len(trickPlays) |-> trickPlays[i].second]
        updatedTeams ==
            [t \in 1..Len(s.teams) |->
                IF s.teams[t].id = winningTeamId
                THEN [s.teams[t] EXCEPT
                          !.collectedCards = s.teams[t].collectedCards \o cardsToAdd]
                ELSE s.teams[t]]
        currentTrickCount ==
            IF winningTeamId \in DOMAIN s.tricksWon THEN s.tricksWon[winningTeamId] ELSE 0
        updatedTricksWon ==
            [id \in DOMAIN s.tricksWon \cup {winningTeamId} |->
                IF id = winningTeamId THEN currentTrickCount + 1 ELSE s.tricksWon[id]]
    IN [s EXCEPT !.teams = updatedTeams,
                 !.tricksWon = updatedTricksWon,
                 !.currentTrickPlays = <<>>,
                 !.currentLeaderIndex = winnerIndex,
                 !.awaitingInputFromPlayerIndex = Null,
                 !.requiredInputType = Null]

(***************************************************************************)
(* GameEngine.processPlayerInput.  The result is [thrown, error, state]:    *)
(* `state` is the returned GameState, or, when an IllegalStateException is  *)
(* thrown, the value the local `nextState` has at the throw.                *)
(***************************************************************************)
Return(s) == [thrown |-> FALSE, error |-> "-", state |-> s]

Throw(s, error) == [thrown |-> TRUE, error |-> error, state |-> s]

\* variant: the trick-complete test never succeeds (> instead of ==)
postPlayUpdate_NeverFinishes(nextState, playerIndex) ==
    IF Len(nextState.currentTrickPlays) > NumPlayers(nextState)
    THEN applyFinishTrick(nextState)
    ELSE requestInput(nextState, (playerIndex + 1) % NumPlayers(nextState))

\* variant: the round is taken to be over after every finished trick
postPlayUpdate_EndsAfterAnyTrick(nextState, playerIndex) ==
    IF Len(nextState.currentTrickPlays) = NumPlayers(nextState)
    THEN applyFinishTrick(nextState)
    ELSE LET nextPlayerIndex == (playerIndex + 1) % NumPlayers(nextState)
         IN requestInput(nextState, nextPlayerIndex)

\* variant: the seat that just played is asked again
postPlayUpdate_SameSeat(nextState, playerIndex) ==
    IF Len(nextState.currentTrickPlays) = NumPlayers(nextState)
    THEN LET stateAfterTrick == applyFinishTrick(nextState)
         IN IF 0 \in DOMAIN stateAfterTrick.players
               /\ stateAfterTrick.players[0].hand = <<>>
            THEN stateAfterTrick
            ELSE requestInput(stateAfterTrick, stateAfterTrick.currentLeaderIndex)
    ELSE requestInput(nextState, playerIndex)

\* "Post-Play State Update": finish the trick or move to the next seat
postPlayUpdate(nextState, playerIndex) ==
    IF Len(nextState.currentTrickPlays) = NumPlayers(nextState)
    THEN LET stateAfterTrick == applyFinishTrick(nextState)
         IN IF 0 \in DOMAIN stateAfterTrick.players
               /\ stateAfterTrick.players[0].hand = <<>>
            THEN stateAfterTrick
            ELSE requestInput(stateAfterTrick, stateAfterTrick.currentLeaderIndex)
    ELSE LET nextPlayerIndex == (playerIndex + 1) % NumPlayers(nextState)
         IN requestInput(nextState, nextPlayerIndex)

\* variant: the trump is set before the card is checked against the hand
chooseTrumpSuitBranch_TrumpBeforeCheck(currentState, playerIndex, playerInput) ==
    LET currentPlayer == currentState.players[playerIndex]
        playedCard == playerInput.card
        nextState == setTrumpFromPlayedCard(currentState, playedCard)
    IN IF playerInput.kind # "Card" THEN Throw(currentState, "InvalidInputType")
       ELSE IF ~Contains(currentPlayer.hand, playedCard)
       THEN Throw(nextState, "CardNotInHand")
       ELSE Return(postPlayUpdate(applyPlayCard(nextState, playerIndex, playedCard),
                                  playerIndex))

\* variant: the played card is not looked up in the hand
chooseTrumpSuitBranch_NoHandCheck(currentState, playerIndex, playerInput) ==
    LET currentPlayer == currentState.players[playerIndex]
        nextState == currentState
        playedCard == playerInput.card
        canFollow ==
            /\ currentState.currentTrickPlays # <<>>
            /\ \E i \in 1..Len(currentPlayer.hand) :
                   currentPlayer.hand[i].suit = currentState.currentTrickPlays[1].second.suit
    IN IF playerInput.kind # "Card" THEN Throw(nextState, "InvalidInputType")
       ELSE IF canFollow THEN Throw(nextState, "CouldFollowSuit")
       ELSE Return(postPlayUpdate(
                applyPlayCard(setTrumpFromPlayedCard(nextState, playedCard),
                              playerIndex, playedCard),
                playerIndex))

\* InputType.CHOOSE_TRUMP_SUIT ->
chooseTrumpSuitBranch(currentState, playerIndex, playerInput) ==
    LET currentPlayer == currentState.players[playerIndex]
        nextState == currentState
        playedCard == playerInput.card
        canFollow ==
            /\ currentState.currentTrickPlays # <<>>
            /\ \E i \in 1..Len(currentPlayer.hand) :
                   currentPlayer.hand[i].suit = currentState.currentTrickPlays[1].second.suit
    IN IF playerInput.kind # "Card" THEN Throw(nextState, "InvalidInputType")
       ELSE IF ~Contains(currentPlayer.hand, playedCard)
       THEN Throw(nextState, "CardNotInHand")
       ELSE IF canFollow THEN Throw(nextState, "CouldFollowSuit")
       ELSE Return(postPlayUpdate(
                applyPlayCard(setTrumpFromPlayedCard(nextState, playedCard),
                              playerIndex, playedCard),
                playerIndex))

\* variant: anything that is not REVEAL is handled as a pass
revealOrPassBranch_ElseIsPass(currentState, playerIndex, playerInput) ==
    LET nextState == currentState
    IN IF playerInput.kind = "Decision" /\ playerInput.decision = "REVEAL"
       THEN Return([revealHiddenTrump(nextState) EXCEPT
                        !.requiredInputType = Some("PLAY_CARD"),
                        !.awaitingInputFromPlayerIndex = Some(playerIndex)])
       ELSE Return([handleTrumpPass(nextState) EXCEPT
                        !.requiredInputType = Some("PLAY_CARD"),
                        !.awaitingInputFromPlayerIndex = Some(playerIndex)])

\* variant: a REVEAL that revealed nothing leaves the decision pending
revealOrPassBranch_RevealStaysPending(currentState, playerIndex, playerInput) ==
    LET nextState == currentState
        revealed == revealHiddenTrump(nextState)
    IN IF playerInput.kind # "Decision" THEN Throw(nextState, "InvalidInputType")
       ELSE IF playerInput.decision = "REVEAL"
       THEN Return([revealed EXCEPT
                        !.requiredInputType =
                            IF revealed.trumpRevealed THEN Some("PLAY_CARD")
                            ELSE Some("REVEAL_OR_PASS"),
                        !.awaitingInputFromPlayerIndex = Some(playerIndex)])
       ELSE Return([handleTrumpPass(nextState) EXCEPT
                        !.requiredInputType = Some("PLAY_CARD"),
                        !.awaitingInputFromPlayerIndex = Some(playerIndex)])

\* InputType.REVEAL_OR_PASS ->
revealOrPassBranch(currentState, playerIndex, playerInput) ==
    LET nextState == currentState
    IN IF playerInput.kind # "Decision" THEN Throw(nextState, "InvalidInputType")
       ELSE IF playerInput.decision = "REVEAL"
       THEN Return([revealHiddenTrump(nextState) EXCEPT
                        !.requiredInputType = Some("PLAY_CARD"),
                        !.awaitingInputFromPlayerIndex = Some(playerIndex)])
       ELSE Return([handleTrumpPass(nextState) EXCEPT
                        !.requiredInputType = Some("PLAY_CARD"),
                        !.awaitingInputFromPlayerIndex = Some(playerIndex)])

\* variant: only a card of the led suit is taken while a trick is under way
playCardBranch_LedSuitOnly(currentState, playerIndex, playerInput) ==
    LET currentPlayer == currentState.players[playerIndex]
        playedCard == playerInput.card
    IN IF playerInput.kind # "Card" THEN Throw(currentState, "InvalidInputType")
       ELSE IF ~Contains(currentPlayer.hand, playedCard)
       THEN Throw(currentState, "CardNotInHand")
       ELSE IF /\ currentState.currentTrickPlays # <<>>
               /\ playedCard.suit # currentState.currentTrickPlays[1].second.suit
       THEN Throw(currentState, "InvalidMove")
       ELSE Return(postPlayUpdate(applyPlayCard(currentState, playerIndex, playedCard),
                                  playerIndex))

\* InputType.PLAY_CARD ->
playCardBranch(currentState, playerIndex, playerInput) ==
    LET currentPlayer == currentState.players[playerIndex]
        nextState == currentState
        playedCard == playerInput.card
        validMoves ==
            determineValidMoves(currentPlayer.hand, currentState.currentTrickPlays,
                                currentState.trumpSuit, currentState.trumpRevealed)
        justRevealed ==
            /\ currentState.requiredInputType = Some("PLAY_CARD")
            /\ currentState.awaitingInputFromPlayerIndex = Some(playerIndex)
            /\ currentState.trumpRevealed
            /\ currentState.gameMode = "FIRST_CARD_HIDDEN"
        mustPlayTrump ==
            /\ justRevealed
            /\ currentState.trumpSuit # Null
            /\ \E i \in 1..Len(currentPlayer.hand) :
                   Some(currentPlayer.hand[i].suit) = currentState.trumpSuit
    IN IF playerInput.kind # "Card" THEN Throw(nextState, "InvalidInputType")
       ELSE IF ~Contains(currentPlayer.hand, playedCard)
       THEN Throw(nextState, "CardNotInHand")
       ELSE IF ~Contains(validMoves, playedCard)
       THEN IF mustPlayTrump /\ Some(playedCard.suit) # currentState.trumpSuit
            THEN Throw(nextState, "MustPlayTrumpAfterReveal")
            ELSE Throw(nextState, "InvalidMove")
       ELSE Return(postPlayUpdate(applyPlayCard(nextState, playerIndex, playedCard),
                                  playerIndex))

processPlayerInput(currentState, playerInput) ==
    IF currentState.awaitingInputFromPlayerIndex = Null
    THEN Throw(currentState, "NoInputExpected")
    ELSE IF currentState.requiredInputType = Null
    THEN Throw(currentState, "RequiredInputTypeNull")
    ELSE LET playerIndex == currentState.awaitingInputFromPlayerIndex[1]
             currentRequirement == currentState.requiredInputType[1]
         IN CASE currentRequirement = "CHOOSE_TRUMP_SUIT" ->
                     chooseTrumpSuitBranch(currentState, playerIndex, playerInput)
              [] currentRequirement = "REVEAL_OR_PASS" ->
                     revealOrPassBranch(currentState, playerIndex, playerInput)
              [] currentRequirement = "PLAY_CARD" ->
                     playCardBranch(currentState, playerIndex, playerInput)

(***************************************************************************)
(* Round start: GameViewModel.initializeGameSettings, then the deal.        *)
(***************************************************************************)
initializeGameSettings(mode, playersNeeded) ==
    [players |-> [i \in 0..(playersNeeded - 1) |->
                     [id |-> i,
                      name |-> IF i = 0 THEN "Host" ELSE "Waiting...",
                      teamId |-> (i % 2) + 1,
                      hand |-> <<>>]],
     teams |-> <<[id |-> 1, collectedCards |-> <<>>], [id |-> 2, collectedCards |-> <<>>]>>,
     gameMode |-> mode,
     tricksWon |-> [id \in {1, 2} |-> 0],
     currentLeaderIndex |-> 0,
     trumpSuit |-> Null,
     trumpRevealed |-> FALSE,
     hiddenCard |-> Null,
     currentTrickPlays |-> <<>>,
     awaitingInputFromPlayerIndex |-> Null,
     requiredInputType |-> Null]

\* the player counts generateDeck accepts, up to the model's bound
PlayerCounts == {n \in {2, 4, 6} : n <= MaxPlayers}

\* dealCards: handSize = deck.size / players.size (capped by the model's bound)
dealCards(s, deck) ==
    LET handSize == Min(MaxHand, Len(deck) \div NumPlayers(s))
    IN [s EXCEPT !.players =
           [i \in DOMAIN s.players |->
               [s.players[i] EXCEPT !.hand = DealtHand(deck, handSize, i)]]]

\* A round starts from the settings' state: in FIRST_CARD_HIDDEN mode a card may be
\* set aside as hiddenCard before dealing; the leader is then asked for input.
StartRound(mode, playersNeeded, deck, setAside) ==
    LET settings == initializeGameSettings(mode, playersNeeded)
        hidden == IF setAside THEN Some(Head(deck)) ELSE Null
        rest == IF setAside THEN Tail(deck) ELSE deck
        dealt == dealCards([settings EXCEPT !.hiddenCard = hidden], rest)
    IN requestInput(dealt, dealt.currentLeaderIndex)

RoundStarts ==
    {StartRound(mode, n, Shuffled(RoundDeck, stride, cut), setAside) :
        mode \in GameModes, n \in PlayerCounts,
        stride \in Strides(RoundDeck), cut \in Cuts(RoundDeck),
        setAside \in BOOLEAN}

NoInput == [kind |-> "-", card |-> NoCard, decision |-> "-"]

\* what a step of the host did: the operation, its outcome, the acting player,
\* whether it wrote _state.value, whether the value it wrote was computed from the
\* value it replaced, and the messages it sent, in order
NoStep ==
    [op |-> "-", outcome |-> "-", actingPlayerId |-> Null, input |-> NoInput,
     wrote |-> FALSE, fromCurrent |-> TRUE, sent |-> <<>>]

\* sync when the host has no task under way
SyncIdle ==
    [frames |-> <<>>, pendingResult |-> Null, resultsEmitted |-> 0,
     nameTask |-> Null, step |-> NoStep]

\* client when no client device is modelled
NoClient ==
    [localPlayerId |-> -1, mirror |-> Null, toHost |-> <<>>, toClient |-> <<>>,
     lastOp |-> "-", lastOutcome |-> "-"]

\* calc when no pure function has been called
NoCalc ==
    [fn |-> "-", playedCards |-> <<>>, trumpSuit |-> Null, teams |-> <<>>,
     tricksWon |-> <<>>, done |-> FALSE, winner |-> Null,
     result |-> RoundResult(Null, FALSE)]

\* last: the operation that produced `state`, its outcome ("started", "accepted",
\* "rejected" by an IllegalStateException, or "ignored" by the host), the error,
\* the input, the acting player and the state the operation was applied to;
\* tricksCompleted counts the accepted card plays that filled a trick, cardsPlayed
\* all accepted card plays
CompletesTrick(s, accepted, playerInput) ==
    /\ accepted
    /\ playerInput.kind = "Card"
    /\ Len(s.currentTrickPlays) = NumPlayers(s) - 1

Init ==
    /\ state \in {s \in RoundStarts : s.hiddenCard # Null => s.gameMode = "FIRST_CARD_HIDDEN"}
    /\ last = [op |-> "startRound", outcome |-> "started", error |-> "-",
               input |-> NoInput, player |-> Null, pre |-> state,
               tricksCompleted |-> 0, cardsPlayed |-> 0]
    /\ calc = NoCalc
    /\ sync = SyncIdle
    /\ client = NoClient

(***************************************************************************)
(* The inputs a caller can submit.                                          *)
(***************************************************************************)
Inputs ==
    {CardInput(c) : c \in Range(RoundDeck)} \cup {DecisionInput(d) : d \in Decisions}

\* what is recorded of an input: all of an accepted one, the kind of any other
Recorded(accepted, playerInput) ==
    IF accepted THEN playerInput ELSE [NoInput EXCEPT !.kind = playerInput.kind]

(***************************************************************************)
(* Engine specification: a caller threads the state through                 *)
(* processPlayerInput, keeping what the call leaves.                        *)
(***************************************************************************)
ProcessPlayerInput(playerInput) ==
    \E r \in {processPlayerInput(state, playerInput)} :
       /\ state' = r.state
       /\ last' = [op |-> "processPlayerInput",
                   outcome |-> IF r.thrown THEN "rejected" ELSE "accepted",
                   error |-> r.error,
                   input |-> Recorded(~r.thrown, playerInput),
                   player |-> state.awaitingInputFromPlayerIndex,
                   pre |-> state,
                   tricksCompleted |->
                       IF CompletesTrick(state, ~r.thrown, playerInput)
                       THEN last.tricksCompleted + 1 ELSE last.tricksCompleted,
                   cardsPlayed |->
                       IF ~r.thrown /\ playerInput.kind = "Card"
                       THEN last.cardsPlayed + 1 ELSE last.cardsPlayed]
       /\ UNCHANGED <<calc, sync, client>>

Next == \E playerInput \in Inputs : ProcessPlayerInput(playerInput)

Spec == Init /\ [][Next]_vars

\* a step in which the engine accepted the awaited player's input
AcceptedInput == last'.op = "processPlayerInput" /\ last'.outcome = "accepted"

\* while input is awaited, the awaited player eventually submits an input that the
\* engine accepts: weak fairness of the accepted call, with its enabling condition
\* written out as "input is awaited" (an accepted call needs an awaited player)
LiveSpec ==
    /\ Spec
    /\ \/ []<>(state.awaitingInputFromPlayerIndex = Null)
       \/ []<><<AcceptedInput>>_vars

(***************************************************************************)
(* Host specification: GameViewModel.processGameInput on the canonical      *)
(* state (isHost = true).  The launched body runs on Dispatchers.Main       *)
(* .immediate and writes _state.value before its first suspension point.    *)
(***************************************************************************)
\* variant: after a rejection the state is stored without a new request for input
processGameInput_NoReRequest(currentState, actingPlayerId, playerInput) ==
    IF currentState.awaitingInputFromPlayerIndex # Some(actingPlayerId)
    THEN [outcome |-> "ignored", error |-> "NotAwaited", state |-> currentState]
    ELSE IF currentState.requiredInputType = Null
    THEN [outcome |-> "ignored", error |-> "NoInputRequired", state |-> currentState]
    ELSE LET r == processPlayerInput(currentState, playerInput)
         IN IF r.thrown
            THEN [outcome |-> "rejected", error |-> r.error,
                  state |-> [currentState EXCEPT !.awaitingInputFromPlayerIndex = Null,
                                                 !.requiredInputType = Null]]
            ELSE [outcome |-> "accepted", error |-> "-", state |-> r.state]

\* variant: the pre-condition checks are left to the engine
processGameInput_NoPreChecks(currentState, actingPlayerId, playerInput) ==
    LET r == processPlayerInput(currentState, playerInput)
    IN IF r.thrown
       THEN [outcome |-> "rejected", error |-> r.error,
             state |-> requestInput(currentState, actingPlayerId)]
       ELSE [outcome |-> "accepted", error |-> "-", state |-> r.state]

processGameInput(currentState, actingPlayerId, playerInput) ==
    IF currentState.awaitingInputFromPlayerIndex # Some(actingPlayerId)
    THEN [outcome |-> "ignored", error |-> "NotAwaited", state |-> currentState]
    ELSE IF currentState.requiredInputType = Null
    THEN [outcome |-> "ignored", error |-> "NoInputRequired", state |-> currentState]
    ELSE LET r == processPlayerInput(currentState, playerInput)
         IN IF r.thrown
            THEN [outcome |-> "rejected", error |-> r.error,
                  state |-> requestInput(currentState, actingPlayerId)]
            ELSE [outcome |-> "accepted", error |-> "-", state |-> r.state]

ProcessGameInput(actingPlayerId, playerInput) ==
    \E h \in {processGameInput(state, actingPlayerId, playerInput)} :
       /\ state' = h.state
       /\ last' = [op |-> "processGameInput",
                   outcome |-> h.outcome,
                   error |-> h.error,
                   input |-> Recorded(h.outcome = "accepted", playerInput),
                   player |-> Some(actingPlayerId),
                   pre |-> state,
                   tricksCompleted |->
                       IF CompletesTrick(state, h.outcome = "accepted", playerInput)
                       THEN last.tricksCompleted + 1 ELSE last.tricksCompleted,
                   cardsPlayed |->
                       IF h.outcome = "accepted" /\ playerInput.kind = "Card"
                       THEN last.cardsPlayed + 1 ELSE last.cardsPlayed]
       /\ UNCHANGED <<calc, sync, client>>

HostNext ==
    \E actingPlayerId \in DOMAIN state.players, playerInput \in Inputs :
        ProcessGameInput(actingPlayerId, playerInput)

HostSpec == Init /\ [][HostNext]_vars

(***************************************************************************)
(* The host's tasks, step by step.  A processGameInput body is launched on  *)
(* Dispatchers.Main.immediate: it reads _state.value, runs the engine, and  *)
(* in a later step writes the successor and sends; after the last trick it  *)
(* waits in delay(500) before the round result is emitted.                  *)
(***************************************************************************)
\* the id the host plays under (localPlayerId = if (host) 0 else -1)
HostPlayerId == 0

Participants(s) == DOMAIN s.players

\* messages and events: a state broadcast, an error to one client, the round result
StateUpdate(to, s) ==
    [type |-> "STATE_UPDATE", to |-> to, state |-> Some(s), result |-> Null]

ErrorMessage(playerId) ==
    [type |-> "ERROR", to |-> {playerId}, state |-> Null, result |-> Null]

RoundResultEvent(result) ==
    [type |-> "ROUND_RESULT", to |-> {}, state |-> Null, result |-> Some(result)]

\* broadcastGameState(s): the snapshot goes to every participant
broadcastGameState(s) == StateUpdate(Participants(s), s)

\* sendMessageToClient(playerId, NetworkMessage(MessageType.ERROR, ...))
sendMessageToClient(playerId) == ErrorMessage(playerId)

\* variant: the determineValidMoves check is left to the host
onCardPlayed_NoValidMoves(currentState, localId, card) ==
    LET myTurn == currentState.awaitingInputFromPlayerIndex = Some(localId)
        validExpectation ==
            currentState.requiredInputType \in {Some("PLAY_CARD"), Some("CHOOSE_TRUMP_SUIT")}
        known == localId \in DOMAIN currentState.players
    IN IF localId = -1 THEN [passed |-> FALSE, error |-> "Player ID not assigned"]
       ELSE IF ~myTurn THEN [passed |-> FALSE, error |-> "Not your turn!"]
       ELSE IF ~validExpectation THEN [passed |-> FALSE, error |-> "Cannot play card now"]
       ELSE IF ~known \/ ~Contains(currentState.players[localId].hand, card)
       THEN [passed |-> FALSE, error |-> "Card not in hand!"]
       ELSE [passed |-> TRUE, error |-> "-"]

\* onCardPlayed up to "Process or Send": the local checks on the device's own state
onCardPlayed(currentState, localId, card) ==
    LET myTurn == currentState.awaitingInputFromPlayerIndex = Some(localId)
        expectedInput == currentState.requiredInputType
        validExpectation ==
            expectedInput \in {Some("PLAY_CARD"), Some("CHOOSE_TRUMP_SUIT")}
        known == localId \in DOMAIN currentState.players
        localPlayer == currentState.players[localId]
        validMoves ==
            determineValidMoves(localPlayer.hand, currentState.currentTrickPlays,
                                currentState.trumpSuit, currentState.trumpRevealed)
    IN IF localId = -1 THEN [passed |-> FALSE, error |-> "Player ID not assigned"]
       ELSE IF ~myTurn THEN [passed |-> FALSE, error |-> "Not your turn!"]
       ELSE IF ~validExpectation THEN [passed |-> FALSE, error |-> "Cannot play card now"]
       ELSE IF ~known \/ ~Contains(localPlayer.hand, card)
       THEN [passed |-> FALSE, error |-> "Card not in hand!"]
       ELSE IF ~Contains(validMoves, card)
       THEN [passed |-> FALSE, error |-> "Invalid move"]
       ELSE [passed |-> TRUE, error |-> "-"]

\* onRevealOrPass up to "Process or Send"
onRevealOrPass(currentState, localId, decision) ==
    IF localId = -1 THEN [passed |-> FALSE, error |-> "Player ID not assigned"]
    ELSE IF currentState.awaitingInputFromPlayerIndex # Some(localId)
    THEN [passed |-> FALSE, error |-> "Not your turn!"]
    ELSE IF currentState.requiredInputType # Some("REVEAL_OR_PASS")
    THEN [passed |-> FALSE, error |-> "Cannot Reveal or Pass now"]
    ELSE IF currentState.gameMode # "FIRST_CARD_HIDDEN"
    THEN [passed |-> FALSE, error |-> "Reveal/Pass is only available in FIRST_CARD_HIDDEN"]
    ELSE [passed |-> TRUE, error |-> "-"]

\* the UI handler for an input of either kind
uiAction(currentState, localId, playerInput) ==
    IF playerInput.kind = "Card"
    THEN onCardPlayed(currentState, localId, playerInput.card)
    ELSE onRevealOrPass(currentState, localId, playerInput.decision)

\* variant: bodies are launched on a dispatcher with more than one thread
MainFree_AnyThread == Len(sync.frames) < 2

\* Dispatchers.Main.immediate: a body starts only when no other body is between its
\* read of _state.value and its write (a body waiting in delay(500) has written)
MainFree == sync.frames = <<>>

\* processGameInput up to the pre-condition checks, for an action that fails them
\* (a client's reader calls it with whatever the client sent)
ProcessGameInputIgnored(actingPlayerId, playerInput) ==
    /\ MainFree
    /\ actingPlayerId # HostPlayerId
    /\ processGameInput(state, actingPlayerId, playerInput).outcome = "ignored"
    /\ sync' = [sync EXCEPT !.step =
                    [op |-> "processGameInput", outcome |-> "ignored",
                     actingPlayerId |-> Some(actingPlayerId),
                     input |-> [NoInput EXCEPT !.kind = playerInput.kind],
                     wrote |-> FALSE, fromCurrent |-> TRUE, sent |-> <<>>]]
    /\ UNCHANGED <<state, last, calc, client>>

\* processGameInput from the launch to the engine call: currentState is read; the
\* host's own seat gets here through onCardPlayed / onRevealOrPass only
ProcessGameInputRead(actingPlayerId, playerInput) ==
    /\ MainFree
    /\ actingPlayerId = HostPlayerId => uiAction(state, actingPlayerId, playerInput).passed
    /\ processGameInput(state, actingPlayerId, playerInput).outcome # "ignored"
    /\ sync' = [sync EXCEPT
                    !.frames = Append(@, [actingPlayerId |-> actingPlayerId,
                                          playerInput |-> playerInput,
                                          currentState |-> state]),
                    !.step = [op |-> "processGameInput", outcome |-> "read",
                              actingPlayerId |-> Some(actingPlayerId),
                              input |-> [NoInput EXCEPT !.kind = playerInput.kind],
                              wrote |-> FALSE, fromCurrent |-> TRUE, sent |-> <<>>]]
    /\ UNCHANGED <<state, last, calc, client>>

\* roundEnded as processGameInput tests it on the new state
roundEnded(newState) ==
    /\ 0 \in DOMAIN newState.players
    /\ newState.players[0].hand = <<>>
    /\ newState.currentTrickPlays = <<>>

\* variant: the successor is stored but not broadcast
sendsOf_NoBroadcast(h, f) ==
    IF h.outcome = "rejected"
    THEN <<sendMessageToClient(f.actingPlayerId), broadcastGameState(h.state)>>
    ELSE <<>>

\* what a body sends once the engine has answered: after a rejection the ERROR to
\* the acting player and the broadcast of the re-request, else the broadcast
sendsOf(h, f) ==
    IF h.outcome = "rejected"
    THEN <<sendMessageToClient(f.actingPlayerId), broadcastGameState(h.state)>>
    ELSE <<broadcastGameState(h.state)>>

\* variant: a result is prepared after every accepted action
resultAfter_Always(h) ==
    IF h.outcome = "accepted" THEN Some(evaluateRound(h.state)) ELSE Null

\* the round result a body holds while it waits in delay(500), if the round ended
resultAfter(h) ==
    IF h.outcome = "accepted" /\ roundEnded(h.state)
    THEN Some(evaluateRound(h.state))
    ELSE Null

\* processGameInput from the engine call on: _state.value is written and the
\* messages go out
ProcessGameInputWrite(i) ==
    /\ i \in 1..Len(sync.frames)
    /\ LET f == sync.frames[i]
       IN \E h \in {processGameInput(f.currentState, f.actingPlayerId, f.playerInput)} :
           /\ state' = h.state
           /\ sync' = [sync EXCEPT
                  !.frames = [j \in 1..(Len(@) - 1) |-> IF j < i THEN @[j] ELSE @[j + 1]],
                  !.pendingResult = IF resultAfter(h) # Null THEN resultAfter(h) ELSE @,
                  !.step = [op |-> "processGameInput", outcome |-> h.outcome,
                            actingPlayerId |-> Some(f.actingPlayerId),
                            input |-> Recorded(h.outcome = "accepted", f.playerInput),
                            wrote |-> TRUE,
                            fromCurrent |-> f.currentState = state,
                            sent |-> sendsOf(h, f)]]
    /\ UNCHANGED <<last, calc, client>>

\* after delay(500): _navigateToResultScreen.tryEmit(result)
EmitRoundResult ==
    /\ MainFree
    /\ sync.pendingResult # Null
    /\ sync' = [sync EXCEPT
                    !.pendingResult = Null,
                    !.resultsEmitted = @ + 1,
                    !.step = [op |-> "processGameInput", outcome |-> "resultEmitted",
                              actingPlayerId |-> Null, input |-> NoInput,
                              wrote |-> FALSE, fromCurrent |-> TRUE,
                              sent |-> <<RoundResultEvent(sync.pendingResult[1])>>]]
    /\ UNCHANGED <<state, last, calc, client>>

SyncNext ==
    \/ \E actingPlayerId \in DOMAIN state.players, playerInput \in Inputs :
           \/ ProcessGameInputIgnored(actingPlayerId, playerInput)
           \/ ProcessGameInputRead(actingPlayerId, playerInput)
    \/ \E i \in 1..Len(sync.frames) : ProcessGameInputWrite(i)
    \/ EmitRoundResult

SyncSpec == Init /\ [][SyncNext]_vars

(***************************************************************************)
(* GameViewModel.updatePlayerName: a plain function, run to completion on   *)
(* the thread of its caller (a client's reader), so its read and its write  *)
(* of _state.value are separate steps beside the bodies on the main thread. *)
(***************************************************************************)
\* names a client may send; the blank one is refused
PlayerNames == {"", "Ann"}

\* names updatePlayerName does not overwrite
IsPlaceholderName(name) == name \in {"[Disconnected]", "[LEFT]"}

\* the state updatePlayerName stores for the snapshot it read, if it stores one
updatePlayerName(currentState, playerId, name) ==
    IF playerId \notin DOMAIN currentState.players
    THEN [wrote |-> FALSE, state |-> currentState]
    ELSE LET currentPlayer == currentState.players[playerId]
         IN IF currentPlayer.name # name /\ ~IsPlaceholderName(currentPlayer.name)
            THEN [wrote |-> TRUE,
                  state |-> [currentState EXCEPT !.players[playerId].name = name]]
            ELSE [wrote |-> FALSE, state |-> currentState]

\* updatePlayerName up to `val currentState = _state.value`
UpdatePlayerNameRead(playerId, name) ==
    /\ sync.nameTask = Null
    /\ sync' = [sync EXCEPT
                    !.nameTask = IF name = "" THEN Null
                                 ELSE Some([playerId |-> playerId, name |-> name,
                                            currentState |-> state]),
                    !.step = [op |-> "updatePlayerName",
                              outcome |-> IF name = "" THEN "ignored" ELSE "read",
                              actingPlayerId |-> Some(playerId), input |-> NoInput,
                              wrote |-> FALSE, fromCurrent |-> TRUE, sent |-> <<>>]]
    /\ UNCHANGED <<state, last, calc, client>>

\* updatePlayerName from the lookup of the player to the broadcast
UpdatePlayerNameWrite ==
    /\ sync.nameTask # Null
    /\ LET task == sync.nameTask[1]
       IN \E u \in {updatePlayerName(task.currentState, task.playerId, task.name)} :
           /\ state' = IF u.wrote THEN u.state ELSE state
           /\ sync' = [sync EXCEPT
                  !.nameTask = Null,
                  !.step = [op |-> "updatePlayerName",
                            outcome |-> IF u.wrote THEN "updated" ELSE "skipped",
                            actingPlayerId |-> Some(task.playerId), input |-> NoInput,
                            wrote |-> u.wrote,
                            fromCurrent |-> task.currentState = state,
                            sent |-> IF u.wrote THEN <<broadcastGameState(u.state)>>
                                     ELSE <<>>]]
    /\ UNCHANGED <<last, calc, client>>

\* a two-player round, the host and one client that may send its name
NameInit == Init /\ NumPlayers(state) = 2 /\ state.gameMode = "CHOOSE_WHEN_EMPTY"

NameNext ==
    \/ SyncNext
    \/ \E playerId \in (DOMAIN state.players) \ {HostPlayerId}, name \in PlayerNames :
           UpdatePlayerNameRead(playerId, name)
    \/ UpdatePlayerNameWrite

NameSpec == NameInit /\ [][NameNext]_vars

(***************************************************************************)
(* A client device (isHost == false) with its mirrored GameState, beside    *)
(* the host: the client's UI handlers, the PLAYER_ACTION messages on their  *)
(* way to the host and the STATE_UPDATE messages on their way back.         *)
(***************************************************************************)
\* the id the host assigned to the client device
ClientPlayerId == 1

\* variant: the handler plays the card on the mirrored state before sending it
mirrorAfterAction_Optimistic(mirror, localId, playerInput) ==
    IF playerInput.kind = "Card" /\ uiAction(mirror, localId, playerInput).passed
    THEN applyPlayCard(mirror, localId, playerInput.card)
    ELSE mirror

\* _state.value after onCardPlayed / onRevealOrPass on a client: neither handler
\* assigns it
mirrorAfterAction(mirror, localId, playerInput) == mirror

\* onCardPlayed / onRevealOrPass on the client: show an error, or
\* sendMessageToServer(NetworkMessage(MessageType.PLAYER_ACTION, ...))
ClientAction(playerInput) ==
    /\ Len(client.toHost) < MaxInFlight
    /\ \E r \in {uiAction(client.mirror[1], client.localPlayerId, playerInput)} :
           client' = [client EXCEPT
               !.mirror = Some(mirrorAfterAction(@[1], client.localPlayerId, playerInput)),
               !.toHost = IF r.passed THEN Append(@, playerInput) ELSE @,
               !.lastOp = IF playerInput.kind = "Card" THEN "onCardPlayed"
                          ELSE "onRevealOrPass",
               !.lastOutcome = IF r.passed THEN "sent" ELSE "showError"]
    /\ UNCHANGED <<state, last, calc, sync>>

\* the client's reader takes a STATE_UPDATE: the broadcast snapshot becomes the mirror
ClientReceive ==
    /\ client.toClient # <<>>
    /\ client' = [client EXCEPT !.mirror = Some(Head(client.toClient)),
                                !.toClient = Tail(@),
                                !.lastOp = "stateUpdate",
                                !.lastOutcome = "mirrored"]
    /\ UNCHANGED <<state, last, calc, sync>>

\* the host handles an action: the client's next PLAYER_ACTION, or an action of
\* another seat; what it stores is broadcast and so queued for the client
HostHandles(actingPlayerId, playerInput, fromClient) ==
    /\ Len(client.toClient) < MaxInFlight
    /\ \E h \in {processGameInput(state, actingPlayerId, playerInput)} :
           /\ state' = h.state
           /\ client' = [client EXCEPT
                  !.toHost = IF fromClient THEN Tail(@) ELSE @,
                  !.toClient = IF h.outcome = "ignored" THEN @ ELSE Append(@, h.state),
                  !.lastOp = "processGameInput",
                  !.lastOutcome = h.outcome]
    /\ UNCHANGED <<last, calc, sync>>

HostHandlesClient ==
    /\ client.toHost # <<>>
    /\ HostHandles(client.localPlayerId, Head(client.toHost), TRUE)

HostHandlesOther(actingPlayerId, playerInput) ==
    /\ actingPlayerId # client.localPlayerId
    /\ actingPlayerId = HostPlayerId => uiAction(state, actingPlayerId, playerInput).passed
    /\ processGameInput(state, actingPlayerId, playerInput).outcome # "ignored"
    /\ HostHandles(actingPlayerId, playerInput, FALSE)

\* the client has joined as player 1 and holds the round's first snapshot
ClientInit ==
    /\ state \in {s \in RoundStarts : s.hiddenCard # Null => s.gameMode = "FIRST_CARD_HIDDEN"}
    /\ NumPlayers(state) = 2
    /\ last = [op |-> "startRound", outcome |-> "started", error |-> "-",
               input |-> NoInput, player |-> Null, pre |-> state,
               tricksCompleted |-> 0, cardsPlayed |-> 0]
    /\ calc = NoCalc
    /\ sync = SyncIdle
    /\ client = [NoClient EXCEPT !.localPlayerId = ClientPlayerId,
                                 !.mirror = Some(state)]

ClientNext ==
    \/ \E playerInput \in Inputs : ClientAction(playerInput)
    \/ ClientReceive
    \/ HostHandlesClient
    \/ \E actingPlayerId \in DOMAIN state.players, playerInput \in Inputs :
           HostHandlesOther(actingPlayerId, playerInput)

ClientSpec == ClientInit /\ [][ClientNext]_vars

(***************************************************************************)
(* Calls of the pure functions TrickHandler.determineTrickWinner and        *)
(* RoundEvaluator.evaluateRound on arguments drawn from bounded sets.       *)
(***************************************************************************)
\* the lists of n distinct cards
RECURSIVE DistinctCards(_)
DistinctCards(n) ==
    IF n = 0 THEN {<<>>}
    ELSE {Append(cards, c) : cards \in DistinctCards(n - 1), c \in Range(RoundDeck)}
             \cap {cards \in Seq(Range(RoundDeck)) :
                       \A i, j \in 1..Len(cards) : i # j => cards[i] # cards[j]}

\* a trick of distinct cards, the i-th card played by seat i - 1
TrickLists ==
    {[i \in 1..Len(cards) |-> [first |-> i - 1, second |-> cards[i]]] :
        cards \in UNION {DistinctCards(n) : n \in 1..MaxPlayers}}

TrumpSuits == {Null} \cup {Some(suit) : suit \in Range(SuitValues)}

\* the four Tens and one more card, each collected by team 1, by team 2 or by nobody
EvalDeck == SubSeq(RoundDeck, 1, Min(Len(RoundDeck), Len(SuitValues) + 1))

CollectedBy(owner, teamId) ==
    SelectSeq(EvalDeck, LAMBDA c : owner[c] = teamId)

EvalTeams ==
    {<<[id |-> 1, collectedCards |-> CollectedBy(owner, 1)],
       [id |-> 2, collectedCards |-> CollectedBy(owner, 2)]>> :
        owner \in [Range(EvalDeck) -> 0..2]}

EvalTricksWon == [{1, 2} -> 0..MaxHand]

\* the GameState evaluateRound is given: it reads teams and tricksWon only
EvalState(teams, tricksWon) ==
    [initializeGameSettings("CHOOSE_WHEN_EMPTY", 2) EXCEPT
         !.teams = teams, !.tricksWon = tricksWon]

PureInit ==
    /\ state = initializeGameSettings("CHOOSE_WHEN_EMPTY", 2)
    /\ last = [op |-> "startRound", outcome |-> "started", error |-> "-",
               input |-> NoInput, player |-> Null, pre |-> state,
               tricksCompleted |-> 0, cardsPlayed |-> 0]
    /\ sync = SyncIdle
    /\ client = NoClient
    /\ calc \in {[NoCalc EXCEPT !.fn = "determineTrickWinner",
                                !.playedCards = playedCards,
                                !.trumpSuit = trumpSuit] :
                     playedCards \in TrickLists, trumpSuit \in TrumpSuits}
                \cup {[NoCalc EXCEPT !.fn = "evaluateRound",
                                     !.teams = teams,
                                     !.tricksWon = tricksWon] :
                          teams \in EvalTeams, tricksWon \in EvalTricksWon}

DetermineTrickWinner ==
    /\ calc.fn = "determineTrickWinner"
    /\ ~calc.done
    /\ calc' = [calc EXCEPT !.done = TRUE,
                            !.winner = Some(determineTrickWinner(calc.playedCards,
                                                                 calc.trumpSuit))]
    /\ UNCHANGED <<state, last, sync, client>>

EvaluateRound ==
    /\ calc.fn = "evaluateRound"
    /\ ~calc.done
    /\ calc' = [calc EXCEPT !.done = TRUE,
                            !.result = evaluateRound(EvalState(calc.teams, calc.tricksWon))]
    /\ UNCHANGED <<state, last, sync, client>>

PureNext == DetermineTrickWinner \/ EvaluateRound

PureSpec == PureInit /\ [][PureNext]_vars

(***************************************************************************)
(* DeckGenerator: generateDeck(numPlayers) of the immutable engine, and     *)
(* generateDeck(includeTwos), dealCards and GameEngine.startNewRound of the *)
(* core package, on full decks of Suit.values() x Rank.values().            *)
(***************************************************************************)
\* the cards in the order of the nested loops, Twos skipped unless includeTwos
OrderedDeck(includeTwos) ==
    LET ranks == IF includeTwos THEN RankValues
                 ELSE SelectSeq(RankValues, LAMBDA r : r # "TWO")
    IN [i \in 1..(Len(SuitValues) * Len(ranks)) |->
           Card(SuitValues[((i - 1) \div Len(ranks)) + 1],
                ranks[((i - 1) % Len(ranks)) + 1])]

\* the strides that permute the deck with and the deck without Twos
DeckStrides == Strides(OrderedDeck(TRUE)) \cap Strides(OrderedDeck(FALSE))

DeckCuts == 0..(MaxCut - 1)

\* DeckGenerator.generateDeck(numPlayers): require 2, 4 or 6 players;
\* includeTwos = (numPlayers == 4); the deck is returned shuffled
generateDeck(numPlayers, stride, cut) ==
    IF numPlayers \notin {2, 4, 6}
    THEN [thrown |-> TRUE, deck |-> <<>>]
    ELSE LET includeTwos == (numPlayers = 4)
         IN [thrown |-> FALSE,
             deck |-> Shuffled(OrderedDeck(includeTwos), stride, cut)]

\* core DeckGenerator.generateDeck(includeTwos)
coreGenerateDeck(includeTwos, stride, cut) ==
    Shuffled(OrderedDeck(includeTwos), stride, cut)

\* core DeckGenerator.dealCards: handSize = deck.size / players.size cards are
\* moved from the front of the deck to each player in turn; what is left stays in
\* the deck
coreDealCards(numPlayers, deck) ==
    LET handSize == Len(deck) \div numPlayers
    IN [hands |-> [i \in 0..(numPlayers - 1) |-> DealtHand(deck, handSize, i)],
        deck |-> SubSeq(deck, numPlayers * handSize + 1, Len(deck))]

\* core GameEngine.startNewRound(includeTwos) for an engine of numPlayers players
startNewRound(numPlayers, includeTwos, stride, cut) ==
    LET deck == coreGenerateDeck(includeTwos, stride, cut)
    IN coreDealCards(numPlayers, deck)

\* calc of a call to the deck code
NoDeckCalc ==
    [fn |-> "-", numPlayers |-> 0, includeTwos |-> FALSE, stride |-> 1, cut |-> 0,
     done |-> FALSE, thrown |-> FALSE, deck |-> <<>>, hands |-> <<>>]

\* the player counts handed to generateDeck(numPlayers): the supported ones and
\* the unsupported ones below them
DeckPlayerCounts == 1..6

\* the player counts an engine of the core package is built with
CorePlayerCounts == {2, 4, 6}

DeckInit ==
    /\ state = initializeGameSettings("CHOOSE_WHEN_EMPTY", 2)
    /\ last = [op |-> "startRound", outcome |-> "started", error |-> "-",
               input |-> NoInput, player |-> Null, pre |-> state,
               tricksCompleted |-> 0, cardsPlayed |-> 0]
    /\ sync = SyncIdle
    /\ client = NoClient
    /\ calc \in {[NoDeckCalc EXCEPT !.fn = "generateDeck", !.numPlayers = n,
                                    !.stride = stride, !.cut = cut] :
                     n \in DeckPlayerCounts, stride \in DeckStrides, cut \in DeckCuts}
                \cup {[NoDeckCalc EXCEPT !.fn = "startNewRound", !.numPlayers = n,
                                         !.includeTwos = includeTwos,
                                         !.stride = stride, !.cut = cut] :
                          n \in CorePlayerCounts, includeTwos \in BOOLEAN,
                          stride \in DeckStrides, cut \in DeckCuts}

GenerateDeck ==
    /\ calc.fn = "generateDeck"
    /\ ~calc.done
    /\ \E r \in {generateDeck(calc.numPlayers, calc.stride, calc.cut)} :
           calc' = [calc EXCEPT !.done = TRUE, !.thrown = r.thrown, !.deck = r.deck]
    /\ UNCHANGED <<state, last, sync, client>>

StartNewRound ==
    /\ calc.fn = "startNewRound"
    /\ ~calc.done
    /\ \E r \in {startNewRound(calc.numPlayers, calc.includeTwos, calc.stride, calc.cut)} :
           calc' = [calc EXCEPT !.done = TRUE, !.deck = r.deck, !.hands = r.hands]
    /\ UNCHANGED <<state, last, sync, client>>

DeckNext == GenerateDeck \/ StartNewRound

DeckSpec == DeckInit /\ [][DeckNext]_vars

(***************************************************************************)
(* Properties.                                                              *)
(***************************************************************************)
Hand(s, i) == s.players[i].hand

HasSuit(hand, suit) == \E i \in 1..Len(hand) : hand[i].suit = suit

LeadSuit(s) == s.currentTrickPlays[1].second.suit

Accepted == last.outcome = "accepted"

Rejected == last.outcome = "rejected"

AcceptedCard == Accepted /\ last.input.kind = "Card"

AcceptedDecision(d) == Accepted /\ last.input.kind = "Decision" /\ last.input.decision = d

\* the player who acted in the last accepted or rejected engine call
Actor == last.pre.awaitingInputFromPlayerIndex[1]

RECURSIVE HandsUpTo(_, _)
HandsUpTo(s, k) == IF k = 0 THEN <<>> ELSE HandsUpTo(s, k - 1) \o Hand(s, k - 1)

RECURSIVE CollectedUpTo(_, _)
CollectedUpTo(s, k) ==
    IF k = 0 THEN <<>> ELSE CollectedUpTo(s, k - 1) \o s.teams[k].collectedCards

TrickCards(s) == [i \in 1..Len(s.currentTrickPlays) |-> s.currentTrickPlays[i].second]

\* every card of the round, place by place: hands, current trick, collected piles
AllPlaces(s) ==
    HandsUpTo(s, NumPlayers(s)) \o TrickCards(s) \o CollectedUpTo(s, Len(s.teams))

InputFieldsAgree(s) ==
    (s.awaitingInputFromPlayerIndex # Null) <=> (s.requiredInputType # Null)

\* C1: a call of processPlayerInput that signals failure leaves the GameState it was
\* given unchanged in every field, in every reachable state and for every input.
C1_RejectionLeavesStateUnchanged ==
    /\ Rejected => state = last.pre
    /\ \A playerInput \in Inputs :
           LET r == processPlayerInput(state, playerInput)
           IN r.thrown => r.state = state

C1_Witness ==
    /\ Rejected
    /\ last.error \in {"InvalidMove", "CardNotInHand"}
    /\ state.currentTrickPlays # <<>>

\* C2: in FIRST_CARD_HIDDEN mode, right after an accepted REVEAL, a card of the same
\* player that is not of the trump suit is rejected when the hand holds a trump card.
C2_RevealForcesTrump ==
    [][(/\ AcceptedDecision("REVEAL")
        /\ state.gameMode = "FIRST_CARD_HIDDEN"
        /\ last'.pre = state
        /\ last'.player = last.player
        /\ last'.input.kind = "Card"
        /\ state.trumpSuit # Null
        /\ HasSuit(Hand(state, last.player[1]), state.trumpSuit[1])
        /\ last'.outcome = "accepted")
       => Some(last'.input.card.suit) = state.trumpSuit]_vars

\* C3: after the host handles an action the engine rejects, the canonical state
\* equals, field for field, the canonical state held before the action arrived.
C3_HostRejectionKeepsCanonicalState ==
    (last.op = "processGameInput" /\ Rejected) => state = last.pre

\* C4: a card accepted onto a non-empty trick whose suit differs from the led suit
\* comes from a hand with no card of the led suit; a card that breaks this is rejected.
C4_FollowSuit ==
    /\ (AcceptedCard /\ last.pre.currentTrickPlays # <<>>
            /\ last.input.card.suit # LeadSuit(last.pre))
           => ~HasSuit(Hand(last.pre, Actor), LeadSuit(last.pre))
    /\ (state.currentTrickPlays # <<>> /\ state.awaitingInputFromPlayerIndex # Null)
           => \A c \in Range(RoundDeck) :
                  (/\ c.suit # LeadSuit(state)
                   /\ HasSuit(Hand(state, state.awaitingInputFromPlayerIndex[1]),
                              LeadSuit(state)))
                      => processPlayerInput(state, CardInput(c)).thrown

C4_Witness ==
    /\ AcceptedCard
    /\ last.pre.currentTrickPlays # <<>>
    /\ last.input.card.suit # LeadSuit(last.pre)

\* C5: no card is in two places (hands, current trick, collected piles) or duplicated,
\* every step keeps the set of cards in play, and an accepted card play removes exactly
\* the played card from the acting player's hand and changes no other hand.
C5_CardConservation ==
    /\ Cardinality(Range(AllPlaces(state))) = Len(AllPlaces(state))
    /\ Range(AllPlaces(state)) = Range(AllPlaces(last.pre))
    /\ AcceptedCard =>
           /\ Contains(Hand(last.pre, Actor), last.input.card)
           /\ ~Contains(Hand(state, Actor), last.input.card)
           /\ Range(Hand(state, Actor)) = Range(Hand(last.pre, Actor)) \ {last.input.card}
           /\ Len(Hand(state, Actor)) = Len(Hand(last.pre, Actor)) - 1
           /\ \A j \in DOMAIN state.players :
                  j # Actor => Hand(state, j) = Hand(last.pre, j)

C5_Witness ==
    /\ AcceptedCard
    /\ \E t \in 1..Len(state.teams) : state.teams[t].collectedCards # <<>>
    /\ state.currentTrickPlays # <<>>
    /\ \E j \in DOMAIN state.players : Hand(state, j) # <<>>

\* C6: in every state produced by requestInput or processPlayerInput,
\* awaitingInputFromPlayerIndex is non-null exactly when requiredInputType is.
C6_InputFieldsAgree ==
    /\ InputFieldsAgree(state)
    /\ \A p \in DOMAIN state.players : InputFieldsAgree(requestInput(state, p))
    /\ \A playerInput \in Inputs :
           InputFieldsAgree(processPlayerInput(state, playerInput).state)

C6_Witness ==
    /\ AcceptedCard
    /\ last.pre.awaitingInputFromPlayerIndex # Null
    /\ last.pre.requiredInputType # Null
    /\ state.awaitingInputFromPlayerIndex = Null
    /\ state.requiredInputType = Null

\* C7: in every reachable state, trumpRevealed implies trumpSuit is set.
C7_RevealedTrumpIsSet == state.trumpRevealed => state.trumpSuit # Null

C7_Witness == AcceptedDecision("REVEAL") /\ state.trumpRevealed

\* C8 as claimed: hiddenCard is non-null only in FIRST_CARD_HIDDEN mode while the
\* trump is not revealed, so that it is null after an accepted REVEAL.
C8_HiddenCardOnlyBeforeReveal ==
    state.hiddenCard # Null =>
        (state.gameMode = "FIRST_CARD_HIDDEN" /\ ~state.trumpRevealed)

\* C8 (amended): hiddenCard is non-null only in FIRST_CARD_HIDDEN mode, and no
\* transition changes it: after an accepted REVEAL it still holds the set-aside card.
C8_HiddenCardKept ==
    /\ state.hiddenCard # Null => state.gameMode = "FIRST_CARD_HIDDEN"
    /\ state.hiddenCard = last.pre.hiddenCard

C8_Witness ==
    /\ AcceptedDecision("REVEAL")
    /\ state.trumpRevealed
    /\ state.hiddenCard # Null

\* C9: within a round trumpSuit, once non-null, never changes and trumpRevealed, once
\* true, stays true; setTrumpFromPlayedCard and revealHiddenTrump on a state with
\* trumpRevealed return the state unchanged.
C9_TrumpSetOnce ==
    /\ last.pre.trumpSuit # Null => state.trumpSuit = last.pre.trumpSuit
    /\ last.pre.trumpRevealed => state.trumpRevealed
    /\ state.trumpRevealed =>
           /\ revealHiddenTrump(state) = state
           /\ \A c \in Range(RoundDeck) : setTrumpFromPlayedCard(state, c) = state

C9_Witness ==
    /\ AcceptedCard
    /\ last.pre.trumpRevealed
    /\ last.pre.trumpSuit # Null
    /\ Some(last.input.card.suit) # last.pre.trumpSuit

\* C10: in every state returned by processPlayerInput the current trick holds fewer
\* plays than there are players: a completed trick is resolved in the same call.
C10_NoFullTrick ==
    /\ Len(state.currentTrickPlays) < NumPlayers(state)
    /\ \A playerInput \in Inputs :
           LET r == processPlayerInput(state, playerInput)
           IN ~r.thrown => Len(r.state.currentTrickPlays) < NumPlayers(r.state)

C10_Witness ==
    /\ AcceptedCard
    /\ Len(last.pre.currentTrickPlays) = NumPlayers(last.pre) - 1
    /\ state.currentTrickPlays = <<>>

CompletedTrick == AcceptedCard /\ Len(last.pre.currentTrickPlays) = NumPlayers(last.pre) - 1

SumTricksWon(s) ==
    LET ids == DOMAIN s.tricksWon
        RECURSIVE SumOver(_)
        SumOver(S) == IF S = {} THEN 0
                      ELSE LET x == CHOOSE y \in S : TRUE
                           IN s.tricksWon[x] + SumOver(S \ {x})
    IN SumOver(ids)

\* C11: the sum over teams of tricksWon equals the number of tricks completed so far
\* in the round, and a completed trick raises exactly one team's count, by exactly 1.
C11_TricksWonCountsTricks ==
    /\ SumTricksWon(state) = last.tricksCompleted
    /\ CompletedTrick =>
           \E w \in DOMAIN state.tricksWon :
               /\ state.tricksWon[w] = last.pre.tricksWon[w] + 1
               /\ \A o \in DOMAIN state.tricksWon :
                      o # w => state.tricksWon[o] = last.pre.tricksWon[o]
    /\ ~CompletedTrick => state.tricksWon = last.pre.tricksWon

C11_Witness ==
    /\ CompletedTrick
    /\ last.tricksCompleted = 2
    /\ \A id \in DOMAIN state.tricksWon : state.tricksWon[id] = 1

\* the trick as it stands once the last accepted card is on it, and its winner's seat
\* under the trump in force when the trick is resolved (the completing card may set it)
FilledTrick ==
    Append(last.pre.currentTrickPlays, [first |-> Actor, second |-> last.input.card])

TrickWinnerSeat == determineTrickWinner(FilledTrick, state.trumpSuit)

\* C12: an accepted play that completes a trick appends the trick's cards to the
\* winner's team pile only, raises that team's tricksWon by 1, makes the winner the
\* leader and empties the trick; unless the round is over the winner is awaited.
C12_TrickResolution ==
    CompletedTrick =>
        LET winningTeamId == last.pre.players[TrickWinnerSeat].teamId
            cards == [i \in 1..Len(FilledTrick) |-> FilledTrick[i].second]
        IN /\ Len(cards) = NumPlayers(state)
           /\ \A t \in 1..Len(state.teams) :
                  state.teams[t].collectedCards =
                      IF state.teams[t].id = winningTeamId
                      THEN last.pre.teams[t].collectedCards \o cards
                      ELSE last.pre.teams[t].collectedCards
           /\ state.tricksWon[winningTeamId] = last.pre.tricksWon[winningTeamId] + 1
           /\ state.currentLeaderIndex = TrickWinnerSeat
           /\ state.currentTrickPlays = <<>>
           /\ (\E j \in DOMAIN state.players : Hand(state, j) # <<>>)
                  => state.awaitingInputFromPlayerIndex = Some(TrickWinnerSeat)

C12_Witness ==
    /\ CompletedTrick
    /\ TrickWinnerSeat # last.pre.currentLeaderIndex
    /\ TrickWinnerSeat # Actor
    /\ state.awaitingInputFromPlayerIndex = Some(TrickWinnerSeat)

AllHandsEmpty(s) == \A j \in DOMAIN s.players : Hand(s, j) = <<>>

\* C13: an accepted call returns the round-final state (no input awaited) exactly
\* when a trick was resolved and all players' hands are empty; when a trick was
\* resolved and some player still holds a card, the new leader is awaited.
C13_RoundEndsWhenHandsEmpty ==
    Accepted =>
        /\ (state.awaitingInputFromPlayerIndex = Null
               <=> (CompletedTrick /\ AllHandsEmpty(state)))
        /\ (state.requiredInputType = Null
               <=> (CompletedTrick /\ AllHandsEmpty(state)))
        /\ (CompletedTrick /\ ~AllHandsEmpty(state))
               => state.awaitingInputFromPlayerIndex = Some(state.currentLeaderIndex)

C13_Witness ==
    /\ CompletedTrick
    /\ AllHandsEmpty(state)
    /\ state.awaitingInputFromPlayerIndex = Null
    /\ NumPlayers(state) = 4

C13_WitnessContinues ==
    /\ CompletedTrick
    /\ ~AllHandsEmpty(state)
    /\ state.awaitingInputFromPlayerIndex = Some(state.currentLeaderIndex)

InSeatOrder(trickPlays, leaderIndex, n) ==
    \A i \in 1..Len(trickPlays) : trickPlays[i].first = (leaderIndex + i - 1) % n

\* C14: after an accepted card that does not complete the trick the next seat,
\* (actingIndex + 1) mod players.size, is awaited; over a whole trick each seat plays
\* exactly one card, in seat order starting from currentLeaderIndex.
C14_SeatOrder ==
    /\ InSeatOrder(state.currentTrickPlays, state.currentLeaderIndex, NumPlayers(state))
    /\ (AcceptedCard /\ ~CompletedTrick) =>
           state.awaitingInputFromPlayerIndex =
               Some((Actor + 1) % NumPlayers(state))
    /\ CompletedTrick =>
           /\ Len(FilledTrick) = NumPlayers(state)
           /\ InSeatOrder(FilledTrick, last.pre.currentLeaderIndex, NumPlayers(state))
           /\ \A j \in DOMAIN state.players :
                  Cardinality({i \in 1..Len(FilledTrick) : FilledTrick[i].first = j}) = 1

C14_Witness ==
    /\ CompletedTrick
    /\ NumPlayers(state) = 4
    /\ last.pre.currentLeaderIndex = 2
    /\ Actor = 1

C14_WitnessNextSeat ==
    /\ AcceptedCard
    /\ ~CompletedTrick
    /\ Actor = 3
    /\ state.awaitingInputFromPlayerIndex = Some(0)

CardRequired(s) ==
    s.requiredInputType \in {Some("PLAY_CARD"), Some("CHOOSE_TRUMP_SUIT")}

\* C15: when PLAY_CARD or CHOOSE_TRUMP_SUIT is required, processPlayerInput rejects
\* every card that is not in the awaited player's hand.
C15_CardNotInHandRejected ==
    (state.awaitingInputFromPlayerIndex # Null /\ CardRequired(state)) =>
        \A c \in Range(RoundDeck) :
            ~Contains(Hand(state, state.awaitingInputFromPlayerIndex[1]), c) =>
                LET r == processPlayerInput(state, CardInput(c))
                IN r.thrown /\ r.error = "CardNotInHand"

C15_Witness ==
    /\ Rejected
    /\ last.error = "CardNotInHand"
    /\ last.pre.requiredInputType = Some("CHOOSE_TRUMP_SUIT")

C15_WitnessPlayCard ==
    /\ Rejected
    /\ last.error = "CardNotInHand"
    /\ last.pre.requiredInputType = Some("PLAY_CARD")

\* C16: processPlayerInput rejects every input whose type does not match
\* requiredInputType (a decision when a card is required, a card when REVEAL_OR_PASS
\* is required), and rejects every input when no input is awaited.
C16_InputTypeMismatchRejected ==
    /\ (state.awaitingInputFromPlayerIndex # Null /\ CardRequired(state)) =>
           \A d \in Decisions :
               LET r == processPlayerInput(state, DecisionInput(d))
               IN r.thrown /\ r.error = "InvalidInputType"
    /\ (state.awaitingInputFromPlayerIndex # Null
        /\ state.requiredInputType = Some("REVEAL_OR_PASS")) =>
           \A c \in Range(RoundDeck) :
               LET r == processPlayerInput(state, CardInput(c))
               IN r.thrown /\ r.error = "InvalidInputType"
    /\ state.awaitingInputFromPlayerIndex = Null =>
           \A playerInput \in Inputs :
               LET r == processPlayerInput(state, playerInput)
               IN r.thrown /\ r.error = "NoInputExpected"

C16_Witness ==
    /\ Rejected
    /\ last.error = "InvalidInputType"
    /\ last.input.kind = "Card"
    /\ last.pre.requiredInputType = Some("REVEAL_OR_PASS")

C16_WitnessDecision ==
    /\ Rejected
    /\ last.error = "InvalidInputType"
    /\ last.input.kind = "Decision"
    /\ last.pre.requiredInputType = Some("CHOOSE_TRUMP_SUIT")

C16_WitnessNoInput ==
    /\ Rejected
    /\ last.error = "NoInputExpected"

\* C17: requestInput is idempotent and touches only the input-request fields: for
\* every player index p, requestInput(requestInput(s, p), p) = requestInput(s, p), and
\* requestInput(s, p) equals s in every field other than awaitingInputFromPlayerIndex
\* and requiredInputType.
C17_RequestInputIdempotentFrame ==
    \A s \in {state, last.pre} :
        \A p \in DOMAIN s.players :
            LET r == requestInput(s, p)
            IN /\ requestInput(r, p) = r
               /\ [r EXCEPT !.awaitingInputFromPlayerIndex = s.awaitingInputFromPlayerIndex,
                            !.requiredInputType = s.requiredInputType] = s

C17_Witness ==
    /\ AcceptedCard
    /\ ~CompletedTrick
    /\ state.requiredInputType = Some("REVEAL_OR_PASS")
    /\ \E p \in DOMAIN state.players :
           requestInput(state, p).requiredInputType # state.requiredInputType

\* a trick was led in Hearts by seat 0 and followed by seat 1; seats 2 and 3 could not
\* follow and played Clubs, seat 3 the lower one
HeartsClubsScenario ==
    /\ CompletedTrick
    /\ NumPlayers(state) = 4
    /\ state.gameMode = "CHOOSE_WHEN_EMPTY"
    /\ last.pre.currentLeaderIndex = 0
    /\ last.pre.tricksWon = <<0, 0>>
    /\ [i \in 1..4 |-> FilledTrick[i].second.suit]
           = <<"HEARTS", "HEARTS", "CLUBS", "CLUBS">>
    /\ RankValue(FilledTrick[4].second.rank) < RankValue(FilledTrick[3].second.rank)

CannotFollow(s) ==
    /\ s.awaitingInputFromPlayerIndex # Null
    /\ s.currentTrickPlays # <<>>
    /\ ~HasSuit(Hand(s, s.awaitingInputFromPlayerIndex[1]), LeadSuit(s))

\* C18: in CHOOSE_WHEN_EMPTY mode the first player who cannot follow the led suit
\* (trump not yet revealed) is asked for CHOOSE_TRUMP_SUIT, and the card they play
\* sets trumpSuit to its suit and trumpRevealed to true in the same transition; in
\* the 4-player Hearts/Clubs scenario player 2 wins the trick, player 2's team gains
\* all 4 cards and has tricksWon = 1.
C18_ChooseWhenEmpty ==
    /\ (state.gameMode = "CHOOSE_WHEN_EMPTY" /\ CannotFollow(state)
        /\ ~state.trumpRevealed)
           => state.requiredInputType = Some("CHOOSE_TRUMP_SUIT")
    /\ (AcceptedCard /\ last.pre.requiredInputType = Some("CHOOSE_TRUMP_SUIT"))
           => /\ ~last.pre.trumpRevealed
              /\ state.trumpSuit = Some(last.input.card.suit)
              /\ state.trumpRevealed
    /\ HeartsClubsScenario =>
           LET teamId == state.players[2].teamId
               cards == [i \in 1..4 |-> FilledTrick[i].second]
           IN /\ state.currentLeaderIndex = 2
              /\ \A t \in 1..Len(state.teams) :
                     state.teams[t].collectedCards =
                         IF state.teams[t].id = teamId THEN cards ELSE <<>>
              /\ state.tricksWon[teamId] = 1

C18_Witness ==
    /\ HeartsClubsScenario
    /\ state.trumpSuit = Some("CLUBS")
    /\ state.currentLeaderIndex = 2

\* C19: in FIRST_CARD_HIDDEN mode every accepted REVEAL yields trumpSuit equal to the
\* hidden card's suit and trumpRevealed true, with the same player still awaited for
\* PLAY_CARD and every hand unchanged.
C19_RevealSetsTrump ==
    (state.gameMode = "FIRST_CARD_HIDDEN" /\ AcceptedDecision("REVEAL")) =>
        /\ state.hiddenCard # Null
        /\ state.trumpSuit = Some(state.hiddenCard[1].suit)
        /\ state.trumpRevealed
        /\ state.awaitingInputFromPlayerIndex = last.pre.awaitingInputFromPlayerIndex
        /\ state.requiredInputType = Some("PLAY_CARD")
        /\ state.players = last.pre.players

\* the part of C19 that does not depend on a hidden card being there
C19_RevealKeepsTurnAndHands ==
    (state.gameMode = "FIRST_CARD_HIDDEN" /\ AcceptedDecision("REVEAL")) =>
        /\ state.awaitingInputFromPlayerIndex = last.pre.awaitingInputFromPlayerIndex
        /\ state.requiredInputType = Some("PLAY_CARD")
        /\ state.players = last.pre.players
        /\ state.hiddenCard # Null =>
               (state.trumpSuit = Some(state.hiddenCard[1].suit) /\ state.trumpRevealed)

C19_RevealWithoutHiddenCard ==
    /\ state.gameMode = "FIRST_CARD_HIDDEN"
    /\ AcceptedDecision("REVEAL")
    /\ state.hiddenCard = Null
    /\ ~state.trumpRevealed

\* C20: in FIRST_CARD_HIDDEN mode an accepted PASS leaves trumpSuit, trumpRevealed
\* (false) and hiddenCard unchanged, keeps the same player awaited with PLAY_CARD
\* required, and any card of that player's hand is then accepted.
C20_PassKeepsTrump ==
    (state.gameMode = "FIRST_CARD_HIDDEN" /\ AcceptedDecision("PASS")) =>
        /\ state.trumpSuit = last.pre.trumpSuit
        /\ state.trumpRevealed = last.pre.trumpRevealed
        /\ ~state.trumpRevealed
        /\ state.hiddenCard = last.pre.hiddenCard
        /\ state.awaitingInputFromPlayerIndex = last.pre.awaitingInputFromPlayerIndex
        /\ state.awaitingInputFromPlayerIndex # Null
        /\ state.requiredInputType = Some("PLAY_CARD")
        /\ \A c \in Range(Hand(state, Actor)) :
               ~processPlayerInput(state, CardInput(c)).thrown

C20_Witness ==
    /\ state.gameMode = "FIRST_CARD_HIDDEN"
    /\ AcceptedDecision("PASS")
    /\ state.hiddenCard # Null
    /\ Cardinality({c.suit : c \in Range(Hand(state, Actor))}) = 2

(***************************************************************************)
(* Properties of the pure functions, over PureSpec.                         *)
(***************************************************************************)
TrickWinnerCalled == calc.fn = "determineTrickWinner" /\ calc.done

SuitPlays(playedCards, suit) ==
    SelectSeq(playedCards, LAMBDA p : Some(p.second.suit) = suit)

\* the play of the seat that calc.winner names
WinningPlay ==
    calc.playedCards[CHOOSE i \in 1..Len(calc.playedCards) :
                         calc.playedCards[i].first = calc.winner[1]]

Highest(plays, play) ==
    /\ Contains(plays, play)
    /\ \A i \in 1..Len(plays) :
           RankValue(plays[i].second.rank) <= RankValue(play.second.rank)

\* C28: for every non-empty list of plays with distinct cards and every optional
\* trump, the winner is the player of the highest trump-suit card if a trump was
\* played, and otherwise the player of the highest card of the first play's suit.
C28_TrickWinnerRule ==
    TrickWinnerCalled =>
        LET trumpPlays == SuitPlays(calc.playedCards, calc.trumpSuit)
            leadPlays == SuitPlays(calc.playedCards, Some(calc.playedCards[1].second.suit))
        IN /\ calc.winner # Null
           /\ \E i \in 1..Len(calc.playedCards) : calc.playedCards[i].first = calc.winner[1]
           /\ IF trumpPlays # <<>>
              THEN /\ Highest(trumpPlays, WinningPlay)
                   /\ Some(WinningPlay.second.suit) = calc.trumpSuit
              ELSE /\ Highest(leadPlays, WinningPlay)
                   /\ WinningPlay.second.suit = calc.playedCards[1].second.suit

C28_Witness ==
    /\ TrickWinnerCalled
    /\ Len(calc.playedCards) = 4
    /\ Len(SuitPlays(calc.playedCards, calc.trumpSuit)) = 2
    /\ Some(calc.playedCards[1].second.suit) # calc.trumpSuit
    /\ calc.winner = Some(3)
    /\ \E i \in 1..3 :
           RankValue(calc.playedCards[i].second.rank)
               > RankValue(calc.playedCards[4].second.rank)

C28_WitnessNoTrump ==
    /\ TrickWinnerCalled
    /\ Len(calc.playedCards) = 3
    /\ SuitPlays(calc.playedCards, calc.trumpSuit) = <<>>
    /\ calc.trumpSuit # Null
    /\ calc.winner = Some(2)

\* the same plays with the seat k places later leading
Rotate(playedCards, k) ==
    [i \in 1..Len(playedCards) |-> playedCards[((i - 1 + k) % Len(playedCards)) + 1]]

RotationInvariant ==
    \A k \in 0..(Len(calc.playedCards) - 1) :
        Some(determineTrickWinner(Rotate(calc.playedCards, k), calc.trumpSuit)) = calc.winner

\* C29 as stated: for the same plays and the same trump, every rotation of which
\* seat led yields the same winner.
C29_RotationInvariantAlways == TrickWinnerCalled => RotationInvariant

\* C29 as it holds: every rotation of which seat led yields the same winner when a
\* trump-suit card was played or all the cards are of one suit.
C29_RotationInvariantWhenSuitFixed ==
    (TrickWinnerCalled
     /\ (SuitPlays(calc.playedCards, calc.trumpSuit) # <<>>
         \/ Cardinality({calc.playedCards[i].second.suit :
                             i \in 1..Len(calc.playedCards)}) = 1))
        => RotationInvariant

C29_Witness ==
    /\ TrickWinnerCalled
    /\ Len(calc.playedCards) = 4
    /\ Len(SuitPlays(calc.playedCards, calc.trumpSuit)) = 2
    /\ Cardinality({calc.playedCards[i].second.suit : i \in 1..4}) = 3
    /\ calc.winner = Some(2)

RoundEvaluated == calc.fn = "evaluateRound" /\ calc.done

HoldsAllTens(team) ==
    \A suit \in Range(SuitValues) : Contains(team.collectedCards, Card(suit, "TEN"))

\* C30: evaluateRound returns a team holding all four Tens as the winner with isKot
\* true for every value of tricksWon, also when the other team won more tricks.
C30_KotWins ==
    RoundEvaluated =>
        \A i \in 1..Len(calc.teams) :
            HoldsAllTens(calc.teams[i]) =>
                calc.result = RoundResult(Some(calc.teams[i].id), TRUE)

C30_Witness ==
    /\ RoundEvaluated
    /\ HoldsAllTens(calc.teams[2])
    /\ calc.tricksWon[1] > calc.tricksWon[2]
    /\ calc.result = RoundResult(Some(2), TRUE)

\* the number of Tens in a team's collected pile
TensOf(team) ==
    Cardinality({suit \in Range(SuitValues) : Contains(team.collectedCards, Card(suit, "TEN"))})

\* the ids among candidates whose value under f is above every other candidate's
UniqueMax(candidates, f(_)) ==
    {id \in candidates : \A other \in candidates \ {id} : f(other) < f(id)}

\* C31: when no team has all four Tens, evaluateRound returns isKot false; the team
\* with the unique maximum Ten count wins; on a tie in Ten counts above zero the tied
\* team with the unique maximum tricksWon wins; and there is no winner when the Ten
\* counts tie at zero or the tied teams' trick counts are equal or all zero.
C31_TensThenTricks ==
    (RoundEvaluated /\ \A i \in 1..Len(calc.teams) : ~HoldsAllTens(calc.teams[i])) =>
        LET ids == {calc.teams[i].id : i \in 1..Len(calc.teams)}
            tens(id) == TensOf(calc.teams[CHOOSE i \in 1..Len(calc.teams) :
                                              calc.teams[i].id = id])
            tricks(id) == calc.tricksWon[id]
            mostTens == UniqueMax(ids, tens)
            tied == {id \in ids : \A other \in ids : tens(other) <= tens(id)}
            mostTricks == UniqueMax(tied, tricks)
        IN /\ calc.result.isKot = FALSE
           /\ calc.result.winningTeam =
                  IF mostTens # {} THEN Some(CHOOSE id \in mostTens : TRUE)
                  ELSE IF (\E id \in tied : tens(id) > 0) /\ mostTricks # {}
                  THEN Some(CHOOSE id \in mostTricks : TRUE)
                  ELSE Null

\* a tie at one Ten each, decided for team 2 by its tricks
C31_Witness ==
    /\ RoundEvaluated
    /\ TensOf(calc.teams[1]) = 1
    /\ TensOf(calc.teams[2]) = 1
    /\ calc.tricksWon[2] > calc.tricksWon[1]
    /\ calc.result = RoundResult(Some(2), FALSE)

\* equal nonzero Tens and equal nonzero tricks: a draw
C31_WitnessDraw ==
    /\ RoundEvaluated
    /\ TensOf(calc.teams[1]) = 2
    /\ TensOf(calc.teams[2]) = 2
    /\ calc.tricksWon[1] = 1
    /\ calc.tricksWon[2] = 1
    /\ calc.result = RoundResult(Null, FALSE)

\* the majority of Tens beats the majority of tricks
C31_WitnessMajority ==
    /\ RoundEvaluated
    /\ TensOf(calc.teams[1]) = 2
    /\ TensOf(calc.teams[2]) = 1
    /\ calc.tricksWon[2] > calc.tricksWon[1]
    /\ calc.result = RoundResult(Some(1), FALSE)

(***************************************************************************)
(* Properties of the host's tasks, over SyncSpec.                           *)
(***************************************************************************)
Step == sync.step

Wrote == Step.op = "processGameInput" /\ Step.wrote

Broadcasts(sent) == SelectSeq(sent, LAMBDA m : m.type = "STATE_UPDATE")

Errors(sent) == SelectSeq(sent, LAMBDA m : m.type = "ERROR")

RoundResults(sent) == SelectSeq(sent, LAMBDA m : m.type = "ROUND_RESULT")

C21_WitnessHostSeat ==
    /\ Wrote
    /\ Step.outcome = "accepted"
    /\ Step.actingPlayerId = Some(HostPlayerId)
    /\ state.currentLeaderIndex # HostPlayerId

\* C23: every step that stores a canonical state (a successful transition or a
\* corrective re-request) broadcasts exactly that state to all participants, once;
\* a step that stores nothing, such as an action ignored as out of turn, broadcasts
\* nothing, and states are stored in the order the actions were admitted.
C23_BroadcastWhatWasStored ==
    /\ Wrote =>
           /\ Len(Broadcasts(Step.sent)) = 1
           /\ Broadcasts(Step.sent)[1].state = Some(state)
           /\ Broadcasts(Step.sent)[1].to = Participants(state)
           /\ Step.fromCurrent
    /\ ~Wrote => Broadcasts(Step.sent) = <<>>
    /\ Len(sync.frames) <= 1

C23_Witness ==
    /\ Wrote
    /\ Step.outcome = "rejected"
    /\ Broadcasts(Step.sent) = <<broadcastGameState(state)>>

C23_WitnessIgnored ==
    /\ Step.outcome = "ignored"
    /\ Step.sent = <<>>
    /\ state.currentTrickPlays # <<>>

\* C24: every action the host rejects, by engine validation or because the player
\* is not the awaited one or no input is required, sends one ERROR message to the
\* acting participant and to no other.
C24_RejectionSendsError ==
    Step.outcome \in {"rejected", "ignored"} =>
        /\ Len(Errors(Step.sent)) = 1
        /\ Some(Errors(Step.sent)[1].to) = Some({Step.actingPlayerId[1]})

\* the part of C24 that holds: an engine rejection sends one ERROR, to the actor
C24_EngineRejectionSendsError ==
    Step.outcome = "rejected" =>
        /\ Len(Errors(Step.sent)) = 1
        /\ Errors(Step.sent)[1].to = {Step.actingPlayerId[1]}

C24_IgnoredWithoutError ==
    /\ Step.outcome = "ignored"
    /\ Errors(Step.sent) = <<>>

\* C25: after the host has handled an engine rejection the canonical state awaits
\* the player who submitted the rejected action, and some action of that player is
\* accepted.
C25_RejectionKeepsGameGoing ==
    (Wrote /\ Step.outcome = "rejected") =>
        /\ state.awaitingInputFromPlayerIndex = Step.actingPlayerId
        /\ state.requiredInputType # Null
        /\ \E playerInput \in Inputs :
               processGameInput(state, Step.actingPlayerId[1], playerInput).outcome
                   = "accepted"

C25_Witness ==
    /\ Wrote
    /\ Step.outcome = "rejected"
    /\ state.requiredInputType = Some("REVEAL_OR_PASS")

RoundOver(s) == AllHandsEmpty(s) /\ s.currentTrickPlays = <<>>

C22_NoWriteFromOlderSnapshot == Step.wrote => Step.fromCurrent

C22_NameWriteLosesAction ==
    /\ Step.op = "updatePlayerName"
    /\ Step.wrote
    /\ ~Step.fromCurrent
    /\ state.currentTrickPlays = <<>>
    /\ state.requiredInputType = Some("PLAY_CARD")

(***************************************************************************)
(* Properties of the client device, over ClientSpec.                        *)
(***************************************************************************)
\* C27: a client's own onCardPlayed or onRevealOrPass never changes its mirrored
\* GameState, whether the action is refused locally or sent to the host; the mirror
\* changes only when a broadcast of the host arrives, and then to that snapshot.
C27_ClientMirrorOnlyFromBroadcast ==
    [][/\ client'.lastOp \in {"onCardPlayed", "onRevealOrPass"}
           => client'.mirror = client.mirror
       /\ client'.mirror # client.mirror
           => /\ client'.lastOp = "stateUpdate"
              /\ client.toClient # <<>>
              /\ client'.mirror = Some(Head(client.toClient))]_vars

C27_Witness ==
    /\ client.lastOp = "onCardPlayed"
    /\ client.lastOutcome = "sent"
    /\ client.mirror = Some(state)
    /\ client.toHost # <<>>
    /\ state.currentTrickPlays # <<>>

C27_WitnessRefused ==
    /\ client.lastOp = "onRevealOrPass"
    /\ client.lastOutcome = "showError"
    /\ client.mirror # Some(state)

(***************************************************************************)
(* Properties of the deck code, over DeckSpec.                              *)
(***************************************************************************)
DeckGenerated == calc.fn = "generateDeck" /\ calc.done /\ ~calc.thrown

NoDuplicates(cards) == \A i, j \in 1..Len(cards) : i # j => cards[i] # cards[j]

\* C32: for every supported player count generateDeck returns a deck without
\* duplicate cards of 4 suits x 13 ranks = 52 cards, less the 4 Twos only when the
\* player count is 6: 52 cards for 2 and for 4 players, 48 for 6.
C32_DeckSizeByPlayerCount ==
    DeckGenerated =>
        /\ NoDuplicates(calc.deck)
        /\ Len(calc.deck) =
               IF calc.numPlayers = 6
               THEN Len(SuitValues) * Len(RankValues) - Len(SuitValues)
               ELSE Len(SuitValues) * Len(RankValues)

\* what the code does: duplicates never; the Twos are present for 4 players only
C32_DeckSizeInCode ==
    DeckGenerated =>
        /\ NoDuplicates(calc.deck)
        /\ Len(calc.deck) =
               IF calc.numPlayers = 4
               THEN Len(SuitValues) * Len(RankValues)
               ELSE Len(SuitValues) * Len(RankValues) - Len(SuitValues)

C32_TwoPlayersWithoutTwos ==
    /\ DeckGenerated
    /\ calc.numPlayers = 2
    /\ Len(calc.deck) = Len(SuitValues) * Len(RankValues) - Len(SuitValues)
    /\ \A i \in 1..Len(calc.deck) : calc.deck[i].rank # "TWO"

RoundDealt == calc.fn = "startNewRound" /\ calc.done

\* C33: dealing a generated deck puts every card of the deck into exactly one
\* player's hand, leaves no card undealt and gives all players hands of equal size,
\* for every player count and value of includeTwos startNewRound can be called with.
C33_EveryCardDealt ==
    RoundDealt =>
        LET full == Range(OrderedDeck(calc.includeTwos))
        IN /\ calc.deck = <<>>
           /\ \A c \in full :
                  Cardinality({i \in DOMAIN calc.hands : Contains(calc.hands[i], c)}) = 1
           /\ \A i \in DOMAIN calc.hands : NoDuplicates(calc.hands[i])
           /\ \A i, j \in DOMAIN calc.hands : Len(calc.hands[i]) = Len(calc.hands[j])

\* what the code does: hands of equal size without a shared card; the remainder of
\* deck.size / players.size stays in the deck
C33_DealtOrLeftOver ==
    RoundDealt =>
        LET full == Range(OrderedDeck(calc.includeTwos))
        IN /\ Len(calc.deck) = Cardinality(full) % calc.numPlayers
           /\ \A c \in full :
                  Cardinality({i \in DOMAIN calc.hands : Contains(calc.hands[i], c)})
                      + (IF Contains(calc.deck, c) THEN 1 ELSE 0) = 1
           /\ \A i, j \in DOMAIN calc.hands : Len(calc.hands[i]) = Len(calc.hands[j])

C33_SixPlayersWithTwos ==
    /\ RoundDealt
    /\ calc.numPlayers = 6
    /\ calc.includeTwos
    /\ Len(calc.deck) = 4
    /\ \A i \in DOMAIN calc.hands : Len(calc.hands[i]) = 8

(***************************************************************************)
(* Further invariants of the engine's states, over Spec and HostSpec.       *)
(***************************************************************************)
\* the awaited player holds no card of the suit led in the current trick
AwaitedCannotFollow ==
    /\ state.awaitingInputFromPlayerIndex # Null
    /\ state.currentTrickPlays # <<>>
    /\ \A c \in Range(state.players[state.awaitingInputFromPlayerIndex[1]].hand) :
           c.suit # state.currentTrickPlays[1].second.suit

\* C34: CHOOSE_TRUMP_SUIT is required only in CHOOSE_WHEN_EMPTY mode and
\* REVEAL_OR_PASS only in FIRST_CARD_HIDDEN mode; either is required only when the
\* trick is non-empty, trump is not revealed and the awaited player holds no card of
\* the led suit; in all other cases where input is awaited PLAY_CARD is required.
C34_TrumpRequestsByMode ==
    /\ state.requiredInputType = Some("CHOOSE_TRUMP_SUIT")
           => state.gameMode = "CHOOSE_WHEN_EMPTY"
    /\ state.requiredInputType = Some("REVEAL_OR_PASS")
           => state.gameMode = "FIRST_CARD_HIDDEN"
    /\ state.requiredInputType \in {Some("CHOOSE_TRUMP_SUIT"), Some("REVEAL_OR_PASS")}
           => /\ state.currentTrickPlays # <<>>
              /\ ~state.trumpRevealed
              /\ AwaitedCannotFollow
    /\ (/\ state.awaitingInputFromPlayerIndex # Null
        /\ ~(state.currentTrickPlays # <<>> /\ ~state.trumpRevealed /\ AwaitedCannotFollow))
           => state.requiredInputType = Some("PLAY_CARD")

C34_Witness ==
    /\ state.requiredInputType = Some("REVEAL_OR_PASS")
    /\ state.gameMode = "FIRST_CARD_HIDDEN"
    /\ AwaitedCannotFollow
    /\ last.outcome = "accepted"

C34_WitnessChoose ==
    /\ state.requiredInputType = Some("CHOOSE_TRUMP_SUIT")
    /\ state.gameMode = "CHOOSE_WHEN_EMPTY"
    /\ AwaitedCannotFollow
    /\ last.outcome = "accepted"

\* the awaited player cannot follow but trump is known: a card is asked for
C34_WitnessPlayCard ==
    /\ state.requiredInputType = Some("PLAY_CARD")
    /\ state.trumpRevealed
    /\ AwaitedCannotFollow

(***************************************************************************)
(* The client's advisory checks against the engine, over ClientSpec.        *)
(***************************************************************************)
\* the client's mirror is the canonical state and the client is awaited
MirrorCurrentAndAwaited ==
    /\ client.mirror = Some(state)
    /\ state.awaitingInputFromPlayerIndex = Some(client.localPlayerId)

\* C35: with a mirror equal to the canonical state and the local player awaited,
\* onCardPlayed forwards a card exactly if GameEngine.processPlayerInput accepts that
\* card in that state, and onRevealOrPass forwards a decision exactly if the engine
\* accepts it.
C35_ClientChecksAgreeWithEngine ==
    MirrorCurrentAndAwaited =>
        /\ \A c \in Range(RoundDeck) :
               onCardPlayed(client.mirror[1], client.localPlayerId, c).passed
                   <=> ~processPlayerInput(state, CardInput(c)).thrown
        /\ \A d \in Decisions :
               onRevealOrPass(client.mirror[1], client.localPlayerId, d).passed
                   <=> ~processPlayerInput(state, DecisionInput(d)).thrown

\* the client holds the latest broadcast, is awaited and must follow suit: one card
\* of its hand is forwarded and accepted, another is refused by both
C35_Witness ==
    /\ client.lastOp = "stateUpdate"
    /\ MirrorCurrentAndAwaited
    /\ state.requiredInputType = Some("PLAY_CARD")
    /\ state.currentTrickPlays # <<>>
    /\ \E c, other \in Range(state.players[client.localPlayerId].hand) :
           /\ onCardPlayed(client.mirror[1], client.localPlayerId, c).passed
           /\ ~processPlayerInput(state, CardInput(c)).thrown
           /\ ~onCardPlayed(client.mirror[1], client.localPlayerId, other).passed
           /\ processPlayerInput(state, CardInput(other)).thrown

\* the client refused a card locally that the engine would refuse as well
C35_WitnessRefused ==
    /\ client.lastOp = "onCardPlayed"
    /\ client.lastOutcome = "showError"
    /\ MirrorCurrentAndAwaited
    /\ state.requiredInputType = Some("REVEAL_OR_PASS")
    /\ \A d \in Decisions :
           onRevealOrPass(client.mirror[1], client.localPlayerId, d).passed

(***************************************************************************)
(* Invariants of a round in play, over Spec.                                *)
(***************************************************************************)
\* C36: where input is awaited, awaitingInputFromPlayerIndex is
\* (currentLeaderIndex + currentTrickPlays.size) mod players.size, and the players
\* recorded in currentTrickPlays are pairwise distinct and are the seats
\* currentLeaderIndex, currentLeaderIndex + 1, ... (mod players.size) in that order.
C36_TurnPosition ==
    state.awaitingInputFromPlayerIndex # Null =>
        LET n == NumPlayers(state)
            plays == state.currentTrickPlays
        IN /\ state.awaitingInputFromPlayerIndex
                  = Some((state.currentLeaderIndex + Len(plays)) % n)
           /\ \A i \in 1..Len(plays) :
                  plays[i].first = (state.currentLeaderIndex + i - 1) % n
           /\ \A i, j \in 1..Len(plays) : i # j => plays[i].first # plays[j].first

\* a trick under way that a seat other than 0 leads
C36_Witness ==
    /\ state.awaitingInputFromPlayerIndex # Null
    /\ state.currentLeaderIndex # 0
    /\ Len(state.currentTrickPlays) >= 2
    /\ state.awaitingInputFromPlayerIndex[1] < state.currentLeaderIndex
    /\ last.outcome = "accepted"

\* the cards the round was dealt: the size dealCards gave every hand, times the players
CardsDealt(s) ==
    LET set == IF s.hiddenCard = Null THEN 0 ELSE 1
    IN NumPlayers(s) * Min(MaxHand, (Len(RoundDeck) - set) \div NumPlayers(s))

\* C37: each team's collectedCards has exactly players.size x tricksWon[team] cards,
\* and the cards in hands, in the current trick and in the collected piles together
\* are as many as the cards dealt.
C37_CardsAccountedFor ==
    /\ \A t \in 1..Len(state.teams) :
           Len(state.teams[t].collectedCards)
               = NumPlayers(state) * state.tricksWon[state.teams[t].id]
    /\ Len(AllPlaces(state)) = CardsDealt(state)

\* a team has collected a trick and the next trick is under way
C37_Witness ==
    /\ \E t \in 1..Len(state.teams) :
           Len(state.teams[t].collectedCards) = NumPlayers(state)
    /\ NumPlayers(state) = 4
    /\ state.currentTrickPlays # <<>>
    /\ state.awaitingInputFromPlayerIndex # Null
    /\ last.outcome = "accepted"

(***************************************************************************)
(* Termination of a round, over LiveSpec.                                   *)
(***************************************************************************)
RoundFinished ==
    /\ AllHandsEmpty(state)
    /\ state.awaitingInputFromPlayerIndex = Null
    /\ state.requiredInputType = Null

\* C38: from a dealt round with equal non-empty hands, every state that awaits input
\* offers the awaited player, whose hand is not empty, an input the engine accepts;
\* and if the awaited player always eventually submits an accepted input, the round
\* reaches the state with all hands empty and no input awaited after exactly
\* (hand size x players.size) accepted card plays.
C38_RoundTerminates ==
    /\ [](state.awaitingInputFromPlayerIndex # Null =>
              /\ state.players[state.awaitingInputFromPlayerIndex[1]].hand # <<>>
              /\ \E playerInput \in Inputs : ~processPlayerInput(state, playerInput).thrown)
    /\ <>RoundFinished
    /\ [](RoundFinished <=> last.cardsPlayed = CardsDealt(state))

C38_Witness ==
    /\ RoundFinished
    /\ last.cardsPlayed = CardsDealt(state)
    /\ NumPlayers(state) = 4
    /\ last.outcome = "accepted"

(***************************************************************************)
(* The host after the round, over SyncSpec.                                 *)
(***************************************************************************)
\* the round-final state the engine returned is the canonical state
RoundFinalStored ==
    /\ state.awaitingInputFromPlayerIndex = Null
    /\ state.requiredInputType = Null
    /\ RoundOver(state)
    /\ sync.frames = <<>>

\* C39: once the round-final state (awaitingInputFromPlayerIndex and requiredInputType
\* both null) is stored, every later processGameInput call of any player leaves the
\* canonical state unchanged, sends no broadcast and emits no further round-result
\* event: the only step that still sends is the one emission of the round's result.
C39_RoundFinalIsAbsorbing ==
    [][RoundFinalStored =>
          /\ state' = state
          /\ \A actingPlayerId \in DOMAIN state.players, playerInput \in Inputs :
                 /\ processGameInput(state, actingPlayerId, playerInput).outcome = "ignored"
                 /\ processGameInput(state, actingPlayerId, playerInput).state = state
          /\ sync'.frames = <<>>
          /\ sync'.step.outcome = "resultEmitted"
                 => /\ sync.pendingResult # Null
                    /\ sync.resultsEmitted = 0
          /\ sync'.step.outcome # "resultEmitted"
                 => /\ sync'.step.outcome = "ignored"
                    /\ ~sync'.step.wrote
                    /\ sync'.step.sent = <<>>
                    /\ sync'.resultsEmitted = sync.resultsEmitted
                    /\ sync'.pendingResult = sync.pendingResult
          /\ sync'.resultsEmitted <= 1]_vars

\* a call that came after the round's result was emitted and was ignored
C39_Witness ==
    /\ RoundFinalStored
    /\ sync.resultsEmitted = 1
    /\ Step.op = "processGameInput"
    /\ Step.outcome = "ignored"
    /\ Step.input.kind = "Card"

====
